---- MODULE Spec2Model ----
(***************************************************************************)
(* Workspace store of db_gui (src/unnamed/part_003, useWorkspaceStore):    *)
(* the pane/tab model and every mutating operation of the store,           *)
(* translated statement by statement.  Every operation is a function from  *)
(* a workspace value to a workspace value; the actions apply them with     *)
(* arguments drawn from small pools.                                       *)
(*                                                                         *)
(* A tab is the record [id, key, isDirty]: key stands for the tuple        *)
(* (connectionId, type, schema, table) that openTab compares; title, query *)
(* and metadata are never read by the store and are left out.              *)
(***************************************************************************)
EXTENDS Integers, Sequences, FiniteSets, TLC

\* ---- bounds of the model ------------------------------------------------
\* Spec: the whole store over at most two panes.
NumPaneIds == 1
NumTabIds == 3
MaxTabs == 3
\* SpecPanes: up to MaxPanes panes over few tabs.
FewTabIds == 1
FewTabs == 2
\* SpecKeys and SpecNoForce: tabs that differ in what they show.
NumKeys == 2
KeyTabIds == 2
KeyTabs == 2
\* SpecDrop: drags over pane surfaces that take drag-over and drop events.
DropPaneIds == 1
DropTabIds == 2
DropTabs == 2
\* SpecHover: drags over pane surfaces that confirm a position by hovering.
HoverPaneIds == 1
HoverTabIds == 1
HoverTabs == 1
\* SpecRects: pane rectangles that are resized, and drag-over events in them.
RectPaneIds == 1
RectTabIds == 1
RectTabs == 1

\* Tab strips: two panes whose strips take drags of up to three tabs.
StripPaneIds == 1
StripTabIds == 3
StripTabs == 3

\* Closing tabs with unsaved changes: one pane of up to three tabs.
ConfirmPaneIds == 0
ConfirmTabIds == 3
ConfirmTabs == 3

\* Ids drawn at random: the draw has two tab ids and, with "main", two pane ids.
IdsPaneIds == 1
IdsTabIds == 2
IdsTabs == 2

\* Backend calls of the transaction store that can be in flight at once.
MaxRequests == 2
\* SpecDirty: tabs that are marked dirty and saved again.
DirtyPaneIds == 1
DirtyTabIds == 2
DirtyTabs == 2

\* ---- program constants --------------------------------------------------
\* The pane count at which splitPane returns (line 310).
MaxPanes == 4

null == "null"
Main == "main"

TabIdSet(n) == {"t" \o ToString(i) : i \in 1..n}
KeySet(n) == {"k" \o ToString(i) : i \in 1..n}
PaneIdSet(n) == {"p" \o ToString(i) : i \in 1..n}
Positions == {"left", "right", "top", "bottom"}

VARIABLES panes, activePaneId, splitDirection

\* The docking service's drag state (part_007 lines 23-29), the refs of every pane
\* surface, the browser's queue of hover timers, and where the pointer was last
\* reported and whether it has rested there for the hover delay.
VARIABLES dragState, surface, timers, pointer, rested

\* The docking service's registry of pane rectangles (part_007 line 31).
VARIABLES paneRects

\* The refs of every tab strip (TabBar.vue lines 37-38) and the confirmation
\* dialog the strips raise (useConfirm, line 34).
VARIABLES localTabs, isDragging, confirmation

\* The transaction store (stores/transaction.ts lines 5-7), the backend calls
\* that have not returned yet, and the connection the database view is open
\* for (its props.id, the :id of the route).
VARIABLES autoCommit, inTransaction, loading, requests, view

storeVars == <<panes, activePaneId, splitDirection>>

dockVars == <<dragState, surface, timers, pointer, rested, paneRects>>

stripVars == <<localTabs, isDragging, confirmation>>

txVars == <<autoCommit, inTransaction, loading, requests, view>>

vars == <<panes, activePaneId, splitDirection, dragState, surface, timers, pointer, rested,
          paneRects, localTabs, isDragging, confirmation,
          autoCommit, inTransaction, loading, requests, view>>

\* The workspace as one value: the three refs of the store (lines 66-68).
WS == [panes |-> panes, activePaneId |-> activePaneId, splitDirection |-> splitDirection]

\* ---- array helpers (JavaScript semantics, 1-based here) -----------------
Max(a, b) == IF a >= b THEN a ELSE b

\* Array.prototype.findIndex by id: the first position holding id, 0 for -1.
FindIndex(s, id) ==
  IF \E i \in 1..Len(s) : s[i].id = id
  THEN CHOOSE i \in 1..Len(s) : s[i].id = id /\ \A j \in 1..(i - 1) : s[j].id # id
  ELSE 0

\* splice(k, 1) at the 1-based position k.
RemoveAt(s, k) == SubSeq(s, 1, k - 1) \o SubSeq(s, k + 1, Len(s))

\* splice(start, 0, x) with the 0-based start clamped as splice clamps it.
InsertAt(s, start, x) ==
  LET st == IF start > Len(s) THEN Len(s)
            ELSE IF start < 0 THEN Max(Len(s) + start, 0)
            ELSE start
  IN SubSeq(s, 1, st) \o <<x>> \o SubSeq(s, st + 1, Len(s))

\* arr[i]?.id || null at the 1-based position i.
IdAt(s, i) == IF i \in 1..Len(s) THEN s[i].id ELSE null

\* filter(pred) keeping order.
RECURSIVE FilterId(_, _)
FilterId(s, id) ==
  IF s = <<>> THEN <<>>
  ELSE IF Head(s).id = id THEN <<Head(s)>> \o FilterId(Tail(s), id)
  ELSE FilterId(Tail(s), id)

HasId(s, id) == \E i \in 1..Len(s) : s[i].id = id

\* ---- generateId (lines 53-55) ------------------------------------------
\* Math.random().toString(36).substring(2, 9): an id out of 36^7.  The model
\* draws it from a finite pool of n ids and takes one that no live tab (pane)
\* has; which unused id is taken is immaterial, so the least one is taken.
RECURSIVE AllTabs(_)
AllTabs(ps) == IF ps = <<>> THEN <<>> ELSE Head(ps).tabs \o AllTabs(Tail(ps))

LiveTabs(ws) == {AllTabs(ws.panes)[i] : i \in 1..Len(AllTabs(ws.panes))}

LiveTabIds(ws) == {t.id : t \in LiveTabs(ws)}

LivePaneIds(ws) == {ws.panes[i].id : i \in 1..Len(ws.panes)}

FreshTabIds(ws, n) == TabIdSet(n) \ LiveTabIds(ws)

FreshPaneIds(ws, n) == PaneIdSet(n) \ LivePaneIds(ws)

generateTabId(ws, n) ==
  IF FreshTabIds(ws, n) = {} THEN null
  ELSE "t" \o ToString(CHOOSE i \in 1..n :
         /\ ("t" \o ToString(i)) \in FreshTabIds(ws, n)
         /\ \A j \in 1..(i - 1) : ("t" \o ToString(j)) \notin FreshTabIds(ws, n))

generatePaneId(ws, n) ==
  IF FreshPaneIds(ws, n) = {} THEN null
  ELSE "p" \o ToString(CHOOSE i \in 1..n :
         /\ ("p" \o ToString(i)) \in FreshPaneIds(ws, n)
         /\ \A j \in 1..(i - 1) : ("p" \o ToString(j)) \notin FreshPaneIds(ws, n))

\* ---- the store's operations ---------------------------------------------
PaneIndex(ps, paneId) == FindIndex(ps, paneId)

\* closePane without lines 360-362: the split direction survives the last split.
closePane_keepsDirection(ws, paneId) ==
  IF Len(ws.panes) <= 1 THEN ws
  ELSE LET index == PaneIndex(ws.panes, paneId) IN
    IF index = 0 THEN ws
    ELSE LET ps == RemoveAt(ws.panes, index) IN
      [panes |-> ps,
       activePaneId |-> IF ws.activePaneId = paneId THEN ps[1].id ELSE ws.activePaneId,
       splitDirection |-> ws.splitDirection]

\* closePane with line 357 falling back to the last pane left, not the first.
closePane_fallbackLast(ws, paneId) ==
  IF Len(ws.panes) <= 1 THEN ws
  ELSE LET index == PaneIndex(ws.panes, paneId) IN
    IF index = 0 THEN ws
    ELSE LET ps == RemoveAt(ws.panes, index) IN
      [panes |-> ps,
       activePaneId |-> IF ws.activePaneId = paneId THEN ps[Len(ps)].id ELSE ws.activePaneId,
       splitDirection |-> IF Len(ps) = 1 THEN null ELSE ws.splitDirection]

\* closePane, lines 348-363.
closePane(ws, paneId) ==
  IF Len(ws.panes) <= 1 THEN ws
  ELSE LET index == PaneIndex(ws.panes, paneId) IN
    IF index = 0 THEN ws
    ELSE LET ps == RemoveAt(ws.panes, index) IN
      [panes |-> ps,
       activePaneId |-> IF ws.activePaneId = paneId THEN ps[1].id ELSE ws.activePaneId,
       splitDirection |-> IF Len(ps) = 1 THEN null ELSE ws.splitDirection]

\* closeTab with the fallback of removeTabFromPane (line 283) in place of line 131:
\* the first tab, whichever tab was closed.
closeTab_fallbackFirst(ws, paneId, tabId) ==
  LET pi == PaneIndex(ws.panes, paneId) IN
  IF pi = 0 THEN ws
  ELSE LET pane == ws.panes[pi]
           tabIndex == FindIndex(pane.tabs, tabId) IN
    IF tabIndex = 0 THEN ws
    ELSE LET tabs1 == RemoveAt(pane.tabs, tabIndex)
             act == IF pane.activeTabId = tabId THEN IdAt(tabs1, 1) ELSE pane.activeTabId
             ws1 == [ws EXCEPT !.panes[pi] = [pane EXCEPT !.tabs = tabs1, !.activeTabId = act]]
         IN IF Len(tabs1) = 0 /\ Len(ws.panes) > 1 THEN closePane(ws1, paneId) ELSE ws1

\* closeTab, lines 121-137.
closeTab(ws, paneId, tabId) ==
  LET pi == PaneIndex(ws.panes, paneId) IN
  IF pi = 0 THEN ws
  ELSE LET pane == ws.panes[pi]
           tabIndex == FindIndex(pane.tabs, tabId) IN
    IF tabIndex = 0 THEN ws
    ELSE LET tabs1 == RemoveAt(pane.tabs, tabIndex)
             act == IF pane.activeTabId = tabId
                    THEN IdAt(tabs1, Max(1, tabIndex - 1))
                    ELSE pane.activeTabId
             ws1 == [ws EXCEPT !.panes[pi] = [pane EXCEPT !.tabs = tabs1, !.activeTabId = act]]
         IN IF Len(tabs1) = 0 /\ Len(ws.panes) > 1 THEN closePane(ws1, paneId) ELSE ws1

\* The pane openTab and closeActiveTab work on: panes.find(p => p.id === activePaneId).
activePaneIndex(ws) == PaneIndex(ws.panes, ws.activePaneId)

\* pane.tabs.find by (connectionId, type, schema, table): the first match, 0 for none.
FindKey(s, key) ==
  IF \E i \in 1..Len(s) : s[i].key = key
  THEN CHOOSE i \in 1..Len(s) : s[i].key = key /\ \A j \in 1..(i - 1) : s[j].key # key
  ELSE 0

\* openTab, lines 80-119; newId is what generateId() returns on this call.
\* The result is [ws, ret]: the workspace after the call and the returned id.
openTab(ws, key, forceNew, newId) ==
  LET pi == activePaneIndex(ws) IN
  IF pi = 0 THEN [ws |-> ws, ret |-> ""]
  ELSE LET pane == ws.panes[pi]
           existing == IF forceNew THEN 0 ELSE FindKey(pane.tabs, key) IN
    IF existing # 0
    THEN [ws |-> [ws EXCEPT !.panes[pi].activeTabId = pane.tabs[existing].id],
          ret |-> pane.tabs[existing].id]
    ELSE LET tab == [id |-> newId, key |-> key, isDirty |-> FALSE] IN
         [ws |-> [ws EXCEPT !.panes[pi] =
                    [pane EXCEPT !.tabs = Append(pane.tabs, tab), !.activeTabId = newId]],
          ret |-> newId]

\* Whether openTab reaches line 104 and creates a tab.
openTabCreates(ws, key, forceNew) ==
  /\ activePaneIndex(ws) # 0
  /\ forceNew \/ FindKey(ws.panes[activePaneIndex(ws)].tabs, key) = 0

\* closeOtherTabs, lines 139-145.
closeOtherTabs(ws, paneId, keepTabId) ==
  LET pi == PaneIndex(ws.panes, paneId) IN
  IF pi = 0 THEN ws
  ELSE [ws EXCEPT !.panes[pi] =
          [@ EXCEPT !.tabs = FilterId(@, keepTabId), !.activeTabId = keepTabId]]

\* filter(t => !t.isDirty), line 151.
RECURSIVE FilterSaved(_)
FilterSaved(s) ==
  IF s = <<>> THEN <<>>
  ELSE IF ~Head(s).isDirty THEN <<Head(s)>> \o FilterSaved(Tail(s))
  ELSE FilterSaved(Tail(s))

\* savedTabs.forEach: splice out the first tab with the id of each saved tab, lines 152-155.
RECURSIVE RemoveEach(_, _)
RemoveEach(tabs, saved) ==
  IF saved = <<>> THEN tabs
  ELSE LET idx == FindIndex(tabs, Head(saved).id) IN
       RemoveEach(IF idx # 0 THEN RemoveAt(tabs, idx) ELSE tabs, Tail(saved))

\* closeSavedTabs, lines 147-164.
closeSavedTabs(ws, paneId) ==
  LET pi == PaneIndex(ws.panes, paneId) IN
  IF pi = 0 THEN ws
  ELSE LET pane == ws.panes[pi]
           tabs1 == RemoveEach(pane.tabs, FilterSaved(pane.tabs))
           act == IF pane.activeTabId # null /\ ~HasId(tabs1, pane.activeTabId)
                  THEN IdAt(tabs1, 1)
                  ELSE pane.activeTabId
           ws1 == [ws EXCEPT !.panes[pi] = [pane EXCEPT !.tabs = tabs1, !.activeTabId = act]]
       IN IF Len(tabs1) = 0 /\ Len(ws.panes) > 1 THEN closePane(ws1, paneId) ELSE ws1

\* closeTabsToRight, lines 166-178.
closeTabsToRight(ws, paneId, tabId) ==
  LET pi == PaneIndex(ws.panes, paneId) IN
  IF pi = 0 THEN ws
  ELSE LET pane == ws.panes[pi]
           idx == FindIndex(pane.tabs, tabId) IN
    IF idx = 0 THEN ws
    ELSE LET tabs1 == SubSeq(pane.tabs, 1, idx)
             act == IF pane.activeTabId # null /\ ~HasId(tabs1, pane.activeTabId)
                    THEN IdAt(tabs1, Len(tabs1))
                    ELSE pane.activeTabId
         IN [ws EXCEPT !.panes[pi] = [pane EXCEPT !.tabs = tabs1, !.activeTabId = act]]

\* closeActiveTab, lines 180-184.
closeActiveTab(ws) ==
  LET pi == activePaneIndex(ws) IN
  IF pi = 0 THEN ws
  ELSE IF ws.panes[pi].activeTabId = null THEN ws
  ELSE closeTab(ws, ws.panes[pi].id, ws.panes[pi].activeTabId)

\* nextTab, lines 186-193.
nextTab(ws) ==
  LET pi == activePaneIndex(ws) IN
  IF pi = 0 THEN ws
  ELSE LET pane == ws.panes[pi] IN
    IF Len(pane.tabs) = 0 THEN ws
    ELSE LET currentIdx == FindIndex(pane.tabs, pane.activeTabId) - 1
             nextIdx == (currentIdx + 1) % Len(pane.tabs)
         IN [ws EXCEPT !.panes[pi].activeTabId = pane.tabs[nextIdx + 1].id]

\* previousTab, lines 195-202.
previousTab(ws) ==
  LET pi == activePaneIndex(ws) IN
  IF pi = 0 THEN ws
  ELSE LET pane == ws.panes[pi] IN
    IF Len(pane.tabs) = 0 THEN ws
    ELSE LET currentIdx == FindIndex(pane.tabs, pane.activeTabId) - 1
             prevIdx == IF currentIdx <= 0 THEN Len(pane.tabs) - 1 ELSE currentIdx - 1
         IN [ws EXCEPT !.panes[pi].activeTabId = pane.tabs[prevIdx + 1].id]

\* setTabs, lines 204-230; reorderTabs (lines 232-235) only forwards to it.
setTabs(ws, paneId, tabs) ==
  LET pi == PaneIndex(ws.panes, paneId) IN
  IF pi = 0 THEN ws
  ELSE LET pane == ws.panes[pi]
           act == IF pane.activeTabId # null /\ ~HasId(tabs, pane.activeTabId)
                  THEN IdAt(tabs, 1)
                  ELSE pane.activeTabId
       IN [ws EXCEPT !.panes[pi] = [pane EXCEPT !.tabs = tabs, !.activeTabId = act]]

reorderTabs(ws, paneId, tabs) == setTabs(ws, paneId, tabs)

\* addTabToPane with push in place of the splice of line 255: the index is ignored.
addTabToPane_appends(ws, paneId, tab, index) ==
  LET pi == PaneIndex(ws.panes, paneId) IN
  IF pi = 0 THEN ws
  ELSE LET pane == ws.panes[pi] IN
    IF HasId(pane.tabs, tab.id) THEN ws
    ELSE [ws EXCEPT !.panes[pi] =
            [pane EXCEPT !.tabs = Append(pane.tabs, tab), !.activeTabId = tab.id]]

\* addTabToPane, lines 237-260.
addTabToPane(ws, paneId, tab, index) ==
  LET pi == PaneIndex(ws.panes, paneId) IN
  IF pi = 0 THEN ws
  ELSE LET pane == ws.panes[pi] IN
    IF HasId(pane.tabs, tab.id) THEN ws
    ELSE [ws EXCEPT !.panes[pi] =
            [pane EXCEPT !.tabs = InsertAt(pane.tabs, index, tab), !.activeTabId = tab.id]]

\* removeTabFromPane, lines 262-292.
removeTabFromPane(ws, paneId, tabId) ==
  LET pi == PaneIndex(ws.panes, paneId) IN
  IF pi = 0 THEN ws
  ELSE LET pane == ws.panes[pi]
           idx == FindIndex(pane.tabs, tabId) IN
    IF idx = 0 THEN ws
    ELSE LET tabs1 == RemoveAt(pane.tabs, idx)
             act == IF pane.activeTabId = tabId THEN IdAt(tabs1, 1) ELSE pane.activeTabId
             ws1 == [ws EXCEPT !.panes[pi] = [pane EXCEPT !.tabs = tabs1, !.activeTabId = act]]
         IN IF Len(tabs1) = 0 /\ Len(ws.panes) > 1 THEN closePane(ws1, paneId) ELSE ws1

\* setActiveTab, lines 294-299.
setActiveTab(ws, paneId, tabId) ==
  LET pi == PaneIndex(ws.panes, paneId) IN
  IF pi = 0 THEN ws ELSE [ws EXCEPT !.panes[pi].activeTabId = tabId]

\* setActivePane, lines 301-303.
setActivePane(ws, paneId) == [ws EXCEPT !.activePaneId = paneId]

\* The loop of lines 332-342: every pane but the new one loses its first tab with
\* the id of the moved tab, and an active tab lost falls back to the first tab.
StripTab(ps, newId, tabId) ==
  [i \in 1..Len(ps) |->
     IF ps[i].id # newId /\ HasId(ps[i].tabs, tabId)
     THEN LET tabs1 == RemoveAt(ps[i].tabs, FindIndex(ps[i].tabs, tabId)) IN
          [ps[i] EXCEPT !.tabs = tabs1,
                        !.activeTabId = IF ps[i].activeTabId = tabId
                                        THEN IdAt(tabs1, 1) ELSE ps[i].activeTabId]
     ELSE ps[i]]

\* splitPane with line 310 reading "> 4": a fifth pane is let in.
splitPane_fivePanes(ws, targetPaneId, position, tabOpt, newId) ==
  IF Len(ws.panes) > MaxPanes THEN ws
  ELSE LET direction == IF position \in {"top", "bottom"} THEN "horizontal" ELSE "vertical"
           newPane == [id |-> newId, tabs |-> tabOpt,
                       activeTabId |-> IF tabOpt # <<>> THEN tabOpt[1].id ELSE null]
           targetIndex == PaneIndex(ws.panes, targetPaneId)
           ps1 == IF targetIndex = 0 THEN Append(ws.panes, newPane)
                  ELSE IF position \in {"left", "top"}
                  THEN InsertAt(ws.panes, targetIndex - 1, newPane)
                  ELSE InsertAt(ws.panes, targetIndex, newPane)
           ps2 == IF tabOpt # <<>> THEN StripTab(ps1, newId, tabOpt[1].id) ELSE ps1
       IN [panes |-> ps2, activePaneId |-> newId, splitDirection |-> direction]

\* splitPane without the branch of lines 325-326: the new pane always goes after
\* the target.
splitPane_alwaysAfter(ws, targetPaneId, position, tabOpt, newId) ==
  IF Len(ws.panes) >= MaxPanes THEN ws
  ELSE LET direction == IF position \in {"top", "bottom"} THEN "horizontal" ELSE "vertical"
           newPane == [id |-> newId, tabs |-> tabOpt,
                       activeTabId |-> IF tabOpt # <<>> THEN tabOpt[1].id ELSE null]
           targetIndex == PaneIndex(ws.panes, targetPaneId)
           ps1 == IF targetIndex = 0 THEN Append(ws.panes, newPane)
                  ELSE InsertAt(ws.panes, targetIndex, newPane)
           ps2 == IF tabOpt # <<>> THEN StripTab(ps1, newId, tabOpt[1].id) ELSE ps1
       IN [panes |-> ps2, activePaneId |-> newId, splitDirection |-> direction]

\* splitPane, lines 305-346; tabOpt is <<>> for an absent tab and <<tab>> otherwise,
\* newId is what generateId() returns on this call.
splitPane(ws, targetPaneId, position, tabOpt, newId) ==
  IF Len(ws.panes) >= MaxPanes THEN ws
  ELSE LET direction == IF position \in {"top", "bottom"} THEN "horizontal" ELSE "vertical"
           newPane == [id |-> newId, tabs |-> tabOpt,
                       activeTabId |-> IF tabOpt # <<>> THEN tabOpt[1].id ELSE null]
           targetIndex == PaneIndex(ws.panes, targetPaneId)
           ps1 == IF targetIndex = 0 THEN Append(ws.panes, newPane)
                  ELSE IF position \in {"left", "top"}
                  THEN InsertAt(ws.panes, targetIndex - 1, newPane)
                  ELSE InsertAt(ws.panes, targetIndex, newPane)
           ps2 == IF tabOpt # <<>> THEN StripTab(ps1, newId, tabOpt[1].id) ELSE ps1
       IN [panes |-> ps2, activePaneId |-> newId, splitDirection |-> direction]

\* moveTab with line 373 testing fromPane only: a tab moved to a pane that is not
\* there is taken out of its pane and dropped.
moveTab_uncheckedTarget(ws, fromPaneId, toPaneId, tabId, toIndex) ==
  LET fi == PaneIndex(ws.panes, fromPaneId)
      ti == PaneIndex(ws.panes, toPaneId) IN
  IF fi = 0 THEN ws
  ELSE LET tabIndex == FindIndex(ws.panes[fi].tabs, tabId) IN
    IF tabIndex = 0 THEN ws
    ELSE LET tab == ws.panes[fi].tabs[tabIndex]
             ps1 == [ws.panes EXCEPT ![fi].tabs = RemoveAt(@, tabIndex)]
             ps2 == IF ti = 0 THEN ps1 ELSE [ps1 EXCEPT ![ti].tabs = InsertAt(@, toIndex, tab)]
             ps3 == IF ps2[fi].activeTabId = tabId
                    THEN [ps2 EXCEPT ![fi].activeTabId = IdAt(ps2[fi].tabs, 1)]
                    ELSE ps2
             ps4 == IF ti = 0 THEN ps3 ELSE [ps3 EXCEPT ![ti].activeTabId = tabId]
         IN [ws EXCEPT !.panes = ps4]

\* moveTab, lines 365-385; fromPane and toPane may be the same object.
moveTab(ws, fromPaneId, toPaneId, tabId, toIndex) ==
  LET fi == PaneIndex(ws.panes, fromPaneId)
      ti == PaneIndex(ws.panes, toPaneId) IN
  IF fi = 0 \/ ti = 0 THEN ws
  ELSE LET tabIndex == FindIndex(ws.panes[fi].tabs, tabId) IN
    IF tabIndex = 0 THEN ws
    ELSE LET tab == ws.panes[fi].tabs[tabIndex]
             ps1 == [ws.panes EXCEPT ![fi].tabs = RemoveAt(@, tabIndex)]
             ps2 == [ps1 EXCEPT ![ti].tabs = InsertAt(@, toIndex, tab)]
             ps3 == IF ps2[fi].activeTabId = tabId
                    THEN [ps2 EXCEPT ![fi].activeTabId = IdAt(ps2[fi].tabs, 1)]
                    ELSE ps2
             ps4 == [ps3 EXCEPT ![ti].activeTabId = tabId]
         IN [ws EXCEPT !.panes = ps4]

\* The pane and position of the first tab with the id, scanning panes in order
\* (lines 398-404); <<0, 0>> for none.
Locate(ws, tabId) ==
  IF \E i \in 1..Len(ws.panes) : HasId(ws.panes[i].tabs, tabId)
  THEN LET i == CHOOSE i \in 1..Len(ws.panes) :
                  /\ HasId(ws.panes[i].tabs, tabId)
                  /\ \A j \in 1..(i - 1) : ~HasId(ws.panes[j].tabs, tabId)
       IN <<i, FindIndex(ws.panes[i].tabs, tabId)>>
  ELSE <<0, 0>>

\* setTabDirty, lines 397-405.
setTabDirty(ws, tabId, isDirty) ==
  LET at == Locate(ws, tabId) IN
  IF at[1] = 0 THEN ws
  ELSE [ws EXCEPT !.panes[at[1]].tabs[at[2]].isDirty = isDirty]

\* ---- arguments the callers can pass ------------------------------------
\* A universe U names the pools one specification draws arguments from:
\*   gen, tabs, keys  the number of generated pane ids, of tab ids, of keys
\*   dirty, force     the isDirty values of tab arguments, the forceNew values
\*   cap              the most tabs the workspace holds (the cap of the model)
\*   stale            whether callers pass tabs that are in no pane any more
PaneArgs(U) == {Main} \cup PaneIdSet(U.gen)

TabIdArgs(U) == TabIdSet(U.tabs)

\* Tab objects a caller can hold: a caller takes its tabs from the panes, so a
\* tab value with the id of a live tab is one of the live tabs with that id; a
\* value whose id is in no pane is a tab closed earlier that the caller still
\* holds (a drag source, a tab strip's local list).
TabArgs(U, ws) ==
  {t \in [id : TabIdArgs(U), key : KeySet(U.keys), isDirty : U.dirty] :
     /\ t.id \in LiveTabIds(ws) => t \in LiveTabs(ws)
     /\ U.stale \/ t.id \in LiveTabIds(ws)}

\* The lists a tab strip can write back with setTabs: no id twice.
TabSeqArgs(U, ws) ==
  {s \in UNION {[1..n -> TabArgs(U, ws)] : n \in 0..U.cap} :
     \A i, j \in 1..Len(s) : s[i].id = s[j].id => i = j}

TabOptArgs(U, ws) == {<<>>} \cup {<<t>> : t \in TabArgs(U, ws)}

IndexArgs(U) == 0..U.cap

\* ---- the docking service (part_007) --------------------------------------
\* Pointer coordinates are relative to the pane's rectangle, in hundredths:
\* relX = (clientX - rect.x) / rect.width is 0 at the left edge and 100 at the
\* right one.  EDGE_THRESHOLD = 0.2 (part_007 line 21) and the pane surface's own
\* EDGE = 0.18 (part_005 line 338) are 20 and 18 hundredths.
EdgeThreshold == 20

Edge == 18

\* The rectangle of a pane that fills a 100 x 100 window: pointer coordinates
\* in it are relative coordinates in hundredths.
UnitRect == [x |-> 0, y |-> 0, width |-> 100, height |-> 100]

\* The coordinates the pointer is reported at over such a pane: in the left/top
\* band, in the middle, between the two right/bottom thresholds, in the
\* right/bottom band.
Coords == {10, 50, 81, 90}

\* The same without the coordinate between the thresholds, which the service
\* takes as it takes the middle.
DropCoords == {10, 50, 90}

\* A grid of small rectangles and of pointer coordinates in and around them;
\* the sizes divide 100, so that a relative coordinate is a whole number of
\* hundredths.
RectGrid == [x : {0, 1}, y : {0, 1}, width : {5, 10}, height : {5, 10}]

MouseGrid == 0..12

\* The rectangles a pane's element takes as the window is resized, and the
\* coordinates drag-over events are reported at: left of or above every such
\* rectangle, in the middle of each, right of or below all.
RectSample == {r \in RectGrid : r.x = 1 /\ r.y = 1 /\ r.width = r.height}

MouseSample == {0, 4, 12}

\* The same for the pane surface's own classification, which has one threshold.
HoverCoords == {10, 50, 90}

\* Every id a pane can have in any of the specifications.
AllPaneIds == {Main} \cup PaneIdSet(MaxPanes - 1)

\* The drag state with no drag in progress (lines 23-29, and 62-66).
NoDrag ==
  [isDragging |-> FALSE, draggedTab |-> <<>>, sourcePaneId |-> null,
   targetPaneId |-> null, dropPosition |-> null]

\* startDrag, lines 46-52; draggedTab is <<>> for null and <<tab>> otherwise.
startDrag(ds, tab, sourcePaneId) ==
  [isDragging |-> TRUE, draggedTab |-> <<tab>>, sourcePaneId |-> sourcePaneId,
   targetPaneId |-> null, dropPosition |-> null]

\* endDrag, lines 54-69: the returned snapshot and the drag state left behind.
endDrag(ds) ==
  [result |-> [tab |-> ds.draggedTab, sourcePaneId |-> ds.sourcePaneId,
               targetPaneId |-> ds.targetPaneId, dropPosition |-> ds.dropPosition],
   ds |-> [ds EXCEPT !.isDragging = FALSE, !.draggedTab = <<>>, !.sourcePaneId = null,
                     !.targetPaneId = null, !.dropPosition = null]]

\* The registry maps a pane id to <<rect>>, or to <<>> where Map.get gives
\* undefined.  registerPane, lines 34-36.
registerPane(rects, paneId, rect) == [rects EXCEPT ![paneId] = <<rect>>]

\* unregisterPane, lines 38-40.
unregisterPane(rects, paneId) == [rects EXCEPT ![paneId] = <<>>]

\* updatePaneRect, lines 42-44.
updatePaneRect(rects, paneId, rect) == [rects EXCEPT ![paneId] = <<rect>>]

\* (mouse - origin) / size of lines 79-80 and of part_005 lines 335-336, in
\* hundredths; the sizes of the model make the quotient exact.
Relative(mouse, origin, size) == (100 * (mouse - origin)) \div size

\* calculateDropPosition, lines 71-88.
calculateDropPosition(rects, mouseX, mouseY, paneId) ==
  IF rects[paneId] = <<>> THEN "center"
  ELSE LET rect == rects[paneId][1]
           relX == Relative(mouseX, rect.x, rect.width)
           relY == Relative(mouseY, rect.y, rect.height) IN
    IF relX < EdgeThreshold THEN "left"
    ELSE IF relX > 100 - EdgeThreshold THEN "right"
    ELSE IF relY < EdgeThreshold THEN "top"
    ELSE IF relY > 100 - EdgeThreshold THEN "bottom"
    ELSE "center"

\* handleDragOver of the service, lines 90-98: the drag state after the call and
\* the position returned.
handleDragOver(rects, ds, mouseX, mouseY, paneId) ==
  IF ~ds.isDragging THEN [ds |-> ds, ret |-> null]
  ELSE LET position == calculateDropPosition(rects, mouseX, mouseY, paneId) IN
       [ds |-> [ds EXCEPT !.targetPaneId = paneId, !.dropPosition = position],
        ret |-> position]

\* ---- the pane surface --------------------------------------------------
\* The refs of one pane surface: dropPosition and isDragOver (WorkspacePane.vue
\* lines 128-129), pendingPosition and hoverTimeout (part_005 lines 300-302;
\* hoverTimeout is TRUE while the ref holds a timer handle, fired or not).
InitSurface ==
  [dropPosition |-> null, pendingPosition |-> null, hoverTimeout |-> FALSE,
   isDragOver |-> FALSE]

\* The docking side as one value dk: the service's drag state, the refs of the
\* surfaces, and the hover timers not yet fired, in the order they were set (all
\* have the same delay, so that is the order they fire in).
DK == [dragState |-> dragState, surface |-> surface, timers |-> timers,
       paneRects |-> paneRects]

\* The timers of the queue that are not pane p's.
RECURSIVE TimersNotOf(_, _)
TimersNotOf(q, P) ==
  IF q = <<>> THEN <<>>
  ELSE IF Head(q).pane \in P THEN TimersNotOf(Tail(q), P)
  ELSE <<Head(q)>> \o TimersNotOf(Tail(q), P)

\* clearHoverTimeout, part_005 lines 317-322.
clearHoverTimeout(dk, p) ==
  IF dk.surface[p].hoverTimeout
  THEN [dk EXCEPT !.timers = TimersNotOf(@, {p}), !.surface[p].hoverTimeout = FALSE]
  ELSE dk

\* The classification of part_005 lines 338-347.
paneClassify(relX, relY) ==
  IF relX > 100 - Edge THEN "right"
  ELSE IF relY > 100 - Edge THEN "bottom"
  ELSE "center"

\* Lines 326-329 and 353-356 of handlePaneMouseMove: the surface forgets its
\* position and its pending position and clears its timer.
paneReset(dk, p) ==
  clearHoverTimeout(
    [dk EXCEPT !.surface[p].dropPosition = null, !.surface[p].pendingPosition = null], p)

\* handlePaneMouseMove, part_005 lines 324-375.
handlePaneMouseMove(dk, p, relX, relY) ==
  IF ~dk.dragState.isDragging THEN paneReset(dk, p)
  ELSE LET newPosition == paneClassify(relX, relY) IN
    IF dk.dragState.sourcePaneId = p /\ newPosition = "center" THEN paneReset(dk, p)
    ELSE IF newPosition # dk.surface[p].pendingPosition
    THEN LET d1 == clearHoverTimeout([dk EXCEPT !.surface[p].pendingPosition = newPosition], p) IN
         IF newPosition # "center"
         THEN [d1 EXCEPT !.timers = Append(@, [pane |-> p, position |-> newPosition]),
                         !.surface[p].hoverTimeout = TRUE]
         ELSE [d1 EXCEPT !.surface[p].dropPosition = null,
                         !.dragState.targetPaneId = null,
                         !.dragState.dropPosition = null]
    ELSE dk

\* The callback of the timer set at lines 364-368, for the timer that is due first.
hoverTimeoutFires(dk) ==
  LET e == Head(dk.timers) IN
  [dk EXCEPT !.timers = Tail(@),
             !.surface[e.pane].dropPosition = e.position,
             !.dragState.targetPaneId = e.pane,
             !.dragState.dropPosition = e.position]

\* Every pending timer fires, in the order they were set.
RECURSIVE allTimeoutsFire(_)
allTimeoutsFire(dk) ==
  IF dk.timers = <<>> THEN dk ELSE allTimeoutsFire(hoverTimeoutFires(dk))

\* handlePaneMouseLeave, part_005 lines 377-385.
handlePaneMouseLeave(dk, p) ==
  LET d1 == paneReset(dk, p) IN
  IF d1.dragState.targetPaneId = p
  THEN [d1 EXCEPT !.dragState.targetPaneId = null, !.dragState.dropPosition = null]
  ELSE d1

\* The surfaces of the panes that ws2 no longer has are unmounted: onUnmounted
\* (part_005 lines 398-403, WorkspacePane.vue lines 189-192) clears the timer and
\* unregisters the pane, and the refs go with the component.
unmountClosed(ws2, dk) ==
  [dragState |-> dk.dragState,
   surface |-> [p \in AllPaneIds |->
                  IF p \in LivePaneIds(ws2) THEN dk.surface[p] ELSE InitSurface],
   timers |-> TimersNotOf(dk.timers, AllPaneIds \ LivePaneIds(ws2)),
   paneRects |-> [p \in AllPaneIds |->
                    IF p \in LivePaneIds(ws2) THEN dk.paneRects[p]
                    ELSE unregisterPane(dk.paneRects, p)[p]]]

\* The surfaces of the panes that ws2 has and that were not there are mounted:
\* onMounted (WorkspacePane.vue lines 184-187, part_005 lines 392-396) stores
\* the rectangle of the pane's element, which is rect.
mountOpened(ws2, dk, rect) ==
  [dk EXCEPT !.paneRects = [p \in AllPaneIds |->
     IF p \in LivePaneIds(ws2) /\ dk.paneRects[p] = <<>>
     THEN updatePaneRect(dk.paneRects, p, rect)[p]
     ELSE dk.paneRects[p]]]

\* handleDragOver of the surface, WorkspacePane.vue lines 143-156; rect is what
\* getBoundingClientRect gives for the pane's element.
paneHandleDragOver(dk, p, rect, mouseX, mouseY) ==
  LET rects1 == updatePaneRect(dk.paneRects, p, rect)
      r == handleDragOver(rects1, dk.dragState, mouseX, mouseY, p) IN
  [dk EXCEPT !.paneRects = rects1,
             !.dragState = r.ds,
             !.surface[p].isDragOver = TRUE,
             !.surface[p].dropPosition = r.ret]

\* handleDragLeave, WorkspacePane.vue lines 158-161.
handleDragLeave(dk, p) ==
  [dk EXCEPT !.surface[p].isDragOver = FALSE, !.surface[p].dropPosition = null]

\* handleDrop with line 170 reading "else if (result.tab)": a tab dropped on the
\* center of its own pane is added to it.
handleDrop_noSourceCheck(ws, dk, p, newId) ==
  LET r == endDrag(dk.dragState)
      result == r.result
      ws2 == IF result.tab # <<>> /\ result.dropPosition # null
                /\ result.dropPosition # "center"
             THEN splitPane(ws, p, result.dropPosition, result.tab, newId)
             ELSE IF result.tab # <<>>
             THEN addTabToPane(ws, p, result.tab[1],
                               Len(ws.panes[PaneIndex(ws.panes, p)].tabs))
             ELSE ws
  IN [ws |-> ws2,
      dk |-> [dk EXCEPT !.dragState = r.ds,
                        !.surface[p].isDragOver = FALSE,
                        !.surface[p].dropPosition = null]]

\* handleDrop, WorkspacePane.vue lines 163-178, on the surface of the pane p;
\* newId is what generateId() returns if splitPane asks for it.  The result is
\* [ws, dk]: the workspace and the docking side after the handler.
handleDrop(ws, dk, p, newId) ==
  LET r == endDrag(dk.dragState)
      result == r.result
      ws2 == IF result.tab # <<>> /\ result.dropPosition # null
                /\ result.dropPosition # "center"
             THEN splitPane(ws, p, result.dropPosition, result.tab, newId)
             ELSE IF result.tab # <<>> /\ result.sourcePaneId # p
             THEN addTabToPane(ws, p, result.tab[1],
                               Len(ws.panes[PaneIndex(ws.panes, p)].tabs))
             ELSE ws
  IN [ws |-> ws2,
      dk |-> [dk EXCEPT !.dragState = r.ds,
                        !.surface[p].isDragOver = FALSE,
                        !.surface[p].dropPosition = null]]

\* ---- specification ------------------------------------------------------
\* The pointer reported nowhere.
NoPointer == [pane |-> null, relX |-> 0, relY |-> 0]

\* The connections a database view can be open for.
Connections == {"c1", "c2"}

Init ==
  /\ panes = <<[id |-> Main, tabs |-> <<>>, activeTabId |-> null]>>
  /\ activePaneId = Main
  /\ splitDirection = null
  /\ dragState = NoDrag
  /\ surface = [p \in AllPaneIds |-> InitSurface]
  /\ timers = <<>>
  /\ pointer = NoPointer
  /\ rested = FALSE
  /\ paneRects = [p \in AllPaneIds |-> IF p = Main THEN <<UnitRect>> ELSE <<>>]
  /\ localTabs = [p \in AllPaneIds |-> <<>>]
  /\ isDragging = [p \in AllPaneIds |-> FALSE]
  /\ confirmation = <<>>
  /\ autoCommit = TRUE
  /\ inTransaction = [c \in Connections |-> FALSE]
  /\ loading = FALSE
  /\ requests = <<>>
  /\ view = "c1"

\* The tabs the store has for the pane p, <<>> for a pane that is not there.
TabsOf(ws, p) ==
  IF PaneIndex(ws.panes, p) = 0 THEN <<>> ELSE ws.panes[PaneIndex(ws.panes, p)].tabs

\* The refs of the tab strips as one value.  localTabs[p] is the list of the
\* strip of p while the strip is dragging; while it is not, the watch of lines
\* 40-58 keeps the list a copy of the pane's tabs, and localTabs[p] is <<>>.
TB == [localTabs |-> localTabs, isDragging |-> isDragging]

\* localTabs.value of the strip of the pane p.
LocalTabs(ws, tb, p) == IF tb.isDragging[p] THEN tb.localTabs[p] ELSE TabsOf(ws, p)

\* The watch of TabBar.vue lines 40-58, run for every strip after a handler that
\* left the workspace ws2 and the strips tb2: a strip that is dragging keeps its
\* list, any other copies the pane's tabs; the strip of a pane that is gone is
\* gone with it.
watchTabs(ws2, tb2) ==
  IF \A p \in AllPaneIds : ~tb2.isDragging[p] THEN tb2
  ELSE [localTabs |-> [p \in AllPaneIds |->
                         IF tb2.isDragging[p] /\ PaneIndex(ws2.panes, p) # 0
                         THEN tb2.localTabs[p] ELSE <<>>],
        isDragging |-> [p \in AllPaneIds |->
                          tb2.isDragging[p] /\ PaneIndex(ws2.panes, p) # 0]]

\* One handler has run and left the workspace ws2, the docking side dk2 and the
\* tab strips tb2, the pointer last reported at ptr; the components of panes
\* that are gone unmount and those of new panes mount (where the panes are not
\* the ones they were), and the watchers run.
\* rst tells whether the hover delay has passed since the last event.
Render(U, ws2, dk2, ptr, rst, tb2) ==
  \E w \in {ws2} :
  \E dk3 \in {IF LivePaneIds(w) = LivePaneIds(WS) THEN dk2
              ELSE mountOpened(w, unmountClosed(w, dk2), UnitRect)},
     tb3 \in {watchTabs(w, tb2)} :
    /\ Len(AllTabs(w.panes)) <= U.cap
    /\ panes' = w.panes
    /\ activePaneId' = w.activePaneId
    /\ splitDirection' = w.splitDirection
    /\ dragState' = dk3.dragState
    /\ surface' = dk3.surface
    /\ timers' = dk3.timers
    /\ paneRects' = dk3.paneRects
    /\ pointer' = IF ptr.pane \in LivePaneIds(w) THEN ptr ELSE NoPointer
    /\ rested' = rst
    /\ localTabs' = tb3.localTabs
    /\ isDragging' = tb3.isDragging

Settle(U, ws2, dk2, ptr, rst) ==
  /\ Render(U, ws2, dk2, ptr, rst, TB)
  /\ UNCHANGED <<confirmation, autoCommit, inTransaction, loading, requests, view>>

Step(U, ws2, dk2, ptr) == Settle(U, ws2, dk2, ptr, FALSE)

\* One call of a store operation that leaves the workspace ws2.
Call(U, ws2) == Step(U, ws2, DK, pointer)

\* A new tab needs an id of the pool that no tab has.
OpenTab(U) ==
  \E key \in KeySet(U.keys), forceNew \in U.force :
    /\ openTabCreates(WS, key, forceNew) => FreshTabIds(WS, U.tabs) # {}
    /\ Call(U, openTab(WS, key, forceNew, generateTabId(WS, U.tabs)).ws)

CloseTab(U) ==
  \E p \in PaneArgs(U), t \in TabIdArgs(U) :
    /\ Call(U, closeTab(WS, p, t))

CloseOtherTabs(U) ==
  \E p \in PaneArgs(U), t \in TabIdArgs(U) :
    /\ Call(U, closeOtherTabs(WS, p, t))

CloseSavedTabs(U) ==
  \E p \in PaneArgs(U) :
    /\ Call(U, closeSavedTabs(WS, p))

CloseTabsToRight(U) ==
  \E p \in PaneArgs(U), t \in TabIdArgs(U) :
    /\ Call(U, closeTabsToRight(WS, p, t))

CloseActiveTab(U) ==
  /\ Call(U, closeActiveTab(WS))

NextTab(U) ==
  /\ Call(U, nextTab(WS))

PreviousTab(U) ==
  /\ Call(U, previousTab(WS))

SetTabs(U) ==
  \E p \in PaneArgs(U), tabs \in TabSeqArgs(U, WS) :
    /\ Call(U, reorderTabs(WS, p, tabs))

AddTabToPane(U) ==
  \E p \in PaneArgs(U), tab \in TabArgs(U, WS), index \in IndexArgs(U) :
    /\ Call(U, addTabToPane(WS, p, tab, index))

RemoveTabFromPane(U) ==
  \E p \in PaneArgs(U), t \in TabIdArgs(U) :
    /\ Call(U, removeTabFromPane(WS, p, t))

SetActiveTab(U) ==
  \E p \in PaneArgs(U), t \in TabIdArgs(U) :
    /\ Call(U, setActiveTab(WS, p, t))

SetActivePane(U) ==
  \E p \in PaneArgs(U) :
    /\ Call(U, setActivePane(WS, p))

\* A new pane needs an id of the pool that no pane has.
SplitPane(U) ==
  \E target \in PaneArgs(U), position \in Positions, tabOpt \in TabOptArgs(U, WS) :
    /\ Len(panes) < MaxPanes => FreshPaneIds(WS, U.gen) # {}
    /\ Call(U, splitPane(WS, target, position, tabOpt, generatePaneId(WS, U.gen)))

ClosePane(U) ==
  \E p \in PaneArgs(U) :
    /\ Call(U, closePane(WS, p))

MoveTab(U) ==
  \E from \in PaneArgs(U), to \in PaneArgs(U), t \in TabIdArgs(U), toIndex \in IndexArgs(U) :
    /\ Call(U, moveTab(WS, from, to, t, toIndex))

SetTabDirty(U) ==
  \E t \in TabIdArgs(U), d \in U.dirty :
    /\ Call(U, setTabDirty(WS, t, d))

\* ---- drag gestures -------------------------------------------------------
\* A drag starts on a tab of a tab strip: startDrag(tab, paneId) with a tab of
\* the pane; with U.dom the pointer is then over no other pane.
StartDrag(U) ==
  \E pi \in 1..Len(panes) : \E k \in 1..Len(panes[pi].tabs) :
    /\ U.dom => pointer.pane \in {null, panes[pi].id}
    /\ Step(U, WS, [DK EXCEPT !.dragState =
                      startDrag(dragState, panes[pi].tabs[k], panes[pi].id)], pointer)

\* The drag ends away from every pane surface: endDrag().
EndDrag(U) ==
  /\ Step(U, WS, [DK EXCEPT !.dragState = endDrag(dragState).ds], pointer)

\* A drag-over event on the surface of p, whose element has the rectangle rect.
DragOver(U) ==
  \E p \in LivePaneIds(WS), rect \in U.rects, mouseX \in U.mouse, mouseY \in U.mouse :
    /\ Step(U, WS, paneHandleDragOver(DK, p, rect, mouseX, mouseY), pointer)

\* The window is resized: the listener of a pane surface stores the rectangle
\* its element has now (WorkspacePane.vue lines 131-141 and 186).
Resize(U) ==
  \E p \in LivePaneIds(WS), rect \in U.rects :
    /\ Step(U, WS, [DK EXCEPT !.paneRects = updatePaneRect(paneRects, p, rect)], pointer)

DragLeave(U) ==
  \E p \in LivePaneIds(WS) :
    /\ Step(U, WS, handleDragLeave(DK, p), pointer)

\* A drop that splits needs a pane id of the pool that no pane has.
Drop(U) ==
  \E p \in LivePaneIds(WS) :
    /\ (Len(panes) < MaxPanes /\ dragState.draggedTab # <<>>
        /\ dragState.dropPosition \notin {null, "center"}) => FreshPaneIds(WS, U.gen) # {}
    /\ Step(U, handleDrop(WS, DK, p, generatePaneId(WS, U.gen)).ws,
               handleDrop(WS, DK, p, generatePaneId(WS, U.gen)).dk, pointer)

\* With U.dom the pointer moves as the DOM reports it: it is over one pane at a
\* time and a pane hears mouseleave before another hears mousemove.
MouseMove(U) ==
  \E p \in LivePaneIds(WS), relX \in HoverCoords, relY \in HoverCoords :
    /\ U.dom => pointer.pane \in {null, p}
    /\ Step(U, WS, handlePaneMouseMove(DK, p, relX, relY),
            [pane |-> p, relX |-> relX, relY |-> relY])

MouseLeave(U) ==
  \E p \in LivePaneIds(WS) :
    /\ U.dom => pointer.pane = p
    /\ Step(U, WS, handlePaneMouseLeave(DK, p),
            IF pointer.pane = p THEN NoPointer ELSE pointer)

\* The timer that is due first fires.
HoverTimeoutFires(U) ==
  /\ timers # <<>>
  /\ Step(U, WS, hoverTimeoutFires(DK), pointer)

\* The hover delay passes with no event: every timer that was pending has fired.
HoverDelayElapses(U) ==
  /\ ~rested
  /\ Settle(U, WS, allTimeoutsFire(DK), pointer, TRUE)

NextU(U) ==
  \/ OpenTab(U)
  \/ CloseTab(U)
  \/ CloseOtherTabs(U)
  \/ CloseSavedTabs(U)
  \/ CloseTabsToRight(U)
  \/ CloseActiveTab(U)
  \/ NextTab(U)
  \/ PreviousTab(U)
  \/ SetTabs(U)
  \/ AddTabToPane(U)
  \/ RemoveTabFromPane(U)
  \/ SetActiveTab(U)
  \/ SetActivePane(U)
  \/ SplitPane(U)
  \/ ClosePane(U)
  \/ MoveTab(U)
  \/ SetTabDirty(U)

\* The whole store over at most two panes; isDirty stays false.
USpec == [gen |-> NumPaneIds, tabs |-> NumTabIds, keys |-> 1, cap |-> MaxTabs,
          dirty |-> {FALSE}, force |-> BOOLEAN, stale |-> TRUE]

Next == NextU(USpec)

Spec == Init /\ [][Next]_vars

\* Up to MaxPanes panes over few tabs.
UPanes == [gen |-> MaxPanes - 1, tabs |-> FewTabIds, keys |-> 1, cap |-> FewTabs,
           dirty |-> {FALSE}, force |-> BOOLEAN, stale |-> TRUE]

NextPanes == NextU(UPanes)

SpecPanes == Init /\ [][NextPanes]_vars

\* Tabs that differ in (connectionId, type, schema, table).
UKeys == [gen |-> 1, tabs |-> KeyTabIds, keys |-> NumKeys, cap |-> KeyTabs,
          dirty |-> {FALSE}, force |-> BOOLEAN, stale |-> TRUE]

NextKeys == NextU(UKeys)

SpecKeys == Init /\ [][NextKeys]_vars

\* The same with forceNew never passed to openTab, and every tab argument a tab
\* that is in some pane at the time of the call.
UNoForce == [UKeys EXCEPT !.force = {FALSE}, !.stale = FALSE]

NextNoForce == NextU(UNoForce)

SpecNoForce == Init /\ [][NextNoForce]_vars

\* Tabs marked dirty and saved again.
UDirty == [gen |-> DirtyPaneIds, tabs |-> DirtyTabIds, keys |-> 1, cap |-> DirtyTabs,
           dirty |-> BOOLEAN, force |-> BOOLEAN, stale |-> TRUE]

NextDirty == NextU(UDirty)

SpecDirty == Init /\ [][NextDirty]_vars

\* Drags over the pane surfaces of WorkspacePane.vue, which take drag-over,
\* drag-leave and drop events.
UDrop == [gen |-> DropPaneIds, tabs |-> DropTabIds, keys |-> 1, cap |-> DropTabs,
          dirty |-> {FALSE}, force |-> BOOLEAN, stale |-> FALSE, dom |-> FALSE,
          rects |-> {UnitRect}, mouse |-> DropCoords]

NextDrop ==
  \/ OpenTab(UDrop)
  \/ CloseTab(UDrop)
  \/ SplitPane(UDrop)
  \/ ClosePane(UDrop)
  \/ StartDrag(UDrop)
  \/ EndDrag(UDrop)
  \/ DragOver(UDrop)
  \/ DragLeave(UDrop)
  \/ Drop(UDrop)

SpecDrop == Init /\ [][NextDrop]_vars

\* Drag-over events on pane surfaces whose rectangles change with the window.
URects == [gen |-> RectPaneIds, tabs |-> RectTabIds, keys |-> 1, cap |-> RectTabs,
           dirty |-> {FALSE}, force |-> {FALSE}, stale |-> FALSE, dom |-> FALSE,
           rects |-> RectSample, mouse |-> MouseSample]

NextRects ==
  \/ OpenTab(URects)
  \/ SplitPane(URects)
  \/ ClosePane(URects)
  \/ StartDrag(URects)
  \/ EndDrag(URects)
  \/ DragOver(URects)
  \/ Resize(URects)

SpecRects == Init /\ [][NextRects]_vars

\* Drags over the pane surfaces of part_005, which take mouse-move and
\* mouse-leave events and confirm a position with a hover timer; the events
\* arrive in any order.
UHover == [gen |-> HoverPaneIds, tabs |-> HoverTabIds, keys |-> 1, cap |-> HoverTabs,
           dirty |-> {FALSE}, force |-> BOOLEAN, stale |-> FALSE, dom |-> FALSE]

NextHoverU(U) ==
  \/ OpenTab(U)
  \/ CloseTab(U)
  \/ SplitPane(U)
  \/ ClosePane(U)
  \/ StartDrag(U)
  \/ EndDrag(U)
  \/ MouseMove(U)
  \/ MouseLeave(U)
  \/ HoverTimeoutFires(U)
  \/ HoverDelayElapses(U)

NextHover == NextHoverU(UHover)

SpecHover == Init /\ [][NextHover]_vars

\* The same with the pointer events in the order the DOM delivers them.
UHoverDom == [UHover EXCEPT !.dom = TRUE]

NextHoverDom == NextHoverU(UHoverDom)

SpecHoverDom == Init /\ [][NextHoverDom]_vars

\* ---- the tab strips (TabBar.vue) -----------------------------------------
\* onDragStart, TabBar.vue lines 60-67, on the strip of the pane p: the strip
\* marks itself dragging, and from then on the watch leaves its list alone.
onDragStart(ws, tb, p) ==
  [localTabs |-> [tb.localTabs EXCEPT ![p] = LocalTabs(ws, tb, p)],
   isDragging |-> [tb.isDragging EXCEPT ![p] = TRUE]]

\* onDragEnd, TabBar.vue lines 69-81: the strip stops dragging and writes its
\* list to the store with setTabs.
onDragEnd(ws, tb, p) ==
  [ws |-> setTabs(ws, p, LocalTabs(ws, tb, p)),
   tb |-> [localTabs |-> [tb.localTabs EXCEPT ![p] = <<>>],
           isDragging |-> [tb.isDragging EXCEPT ![p] = FALSE]]]

\* The list with the element at the position k moved to the position j, as the
\* draggable puts it into v-model="localTabs" (TabBar.vue line 225).
MoveIn(s, k, j) == InsertAt(RemoveAt(s, k), j - 1, s[k])

\* The tab at the position k of the dragging strip of p is dropped at the
\* position j of the same strip: the draggable updates the list, the change
\* event with "moved" (lines 109-116) only logs, and the end event follows.
dropOnSameStrip(ws, tb, p, k, j) ==
  onDragEnd(ws, [tb EXCEPT !.localTabs[p] = MoveIn(tb.localTabs[p], k, j)], p)

\* The tab at the position k of the dragging strip of A is dropped at newIndex
\* of the strip of B.  The strip of A loses the element and gets "removed"
\* (lines 102-108; WorkspacePane.vue lines 119-121 call removeTabFromPane), the
\* strip of B gets "added" (lines 93-101; WorkspacePane.vue lines 115-117 call
\* addTabToPane), in the order addedFirst tells, and the end event follows on A.
dropOnOtherStrip(ws, tb, A, B, k, newIndex, addedFirst) ==
  LET tab == tb.localTabs[A][k]
      tb1 == [tb EXCEPT !.localTabs[A] = RemoveAt(tb.localTabs[A], k)]
      ws1 == IF addedFirst
             THEN removeTabFromPane(addTabToPane(ws, B, tab, newIndex), A, tab.id)
             ELSE addTabToPane(removeTabFromPane(ws, A, tab.id), B, tab, newIndex)
  IN onDragEnd(ws1, tb1, A)

\* A handler of a tab strip has run and left the workspace ws2 and the strips tb2.
StripStep(U, ws2, tb2) ==
  /\ Render(U, ws2, DK, pointer, FALSE, tb2)
  /\ UNCHANGED <<confirmation, autoCommit, inTransaction, loading, requests, view>>

\* The pointer picks up a tab of the strip of p; one drag goes on at a time.
StripDragStart(U) ==
  \E p \in LivePaneIds(WS) :
    /\ \A q \in AllPaneIds : ~isDragging[q]
    /\ TabsOf(WS, p) # <<>>
    /\ StripStep(U, WS, onDragStart(WS, TB, p))

StripDropOnSame(U) ==
  \E p \in LivePaneIds(WS) :
    /\ isDragging[p]
    /\ \E k \in 1..Len(localTabs[p]), j \in 1..Len(localTabs[p]) :
         \E r \in {dropOnSameStrip(WS, TB, p, k, j)} : StripStep(U, r.ws, r.tb)

StripDropOnOther(U) ==
  \E A \in LivePaneIds(WS), B \in LivePaneIds(WS) :
    /\ isDragging[A]
    /\ B # A
    /\ \E k \in 1..Len(localTabs[A]), newIndex \in 0..Len(TabsOf(WS, B)),
          addedFirst \in BOOLEAN :
         \E r \in {dropOnOtherStrip(WS, TB, A, B, k, newIndex, addedFirst)} :
           StripStep(U, r.ws, r.tb)

\* A click needs the pointer, which a drag holds: the split buttons of the
\* toolbar (DatabaseView.vue lines 537 and 547) and the click that makes a pane
\* the active one work while no strip is dragging.
ClickSplitPane(U) ==
  /\ \A q \in AllPaneIds : ~isDragging[q]
  /\ SplitPane(U)

ClickPane(U) ==
  /\ \A q \in AllPaneIds : ~isDragging[q]
  /\ SetActivePane(U)

\* Tab strips dragged while tabs open (every openTab makes a new tab) and the
\* close-active-tab shortcut is pressed.
UStrip == [gen |-> StripPaneIds, tabs |-> StripTabIds, keys |-> 1, cap |-> StripTabs,
           dirty |-> {FALSE}, force |-> {TRUE}, stale |-> FALSE, dom |-> FALSE]

NextStrip ==
  \/ OpenTab(UStrip)
  \/ CloseActiveTab(UStrip)
  \/ ClickPane(UStrip)
  \/ ClickSplitPane(UStrip)
  \/ StripDragStart(UStrip)
  \/ StripDropOnSame(UStrip)
  \/ StripDropOnOther(UStrip)

SpecStrip == Init /\ [][NextStrip]_vars

\* ---- closing tabs from the strip (TabBar.vue lines 136-189) ---------------
\* confirm.require of lines 139-145, 157-163 and 179-185: the dialog is up, and
\* its accept callback will emit the event for tabId from the strip of pane.
Require(p, event, tabId) == <<[pane |-> p, event |-> event, tabId |-> tabId]>>

\* What an event of the strip of p does in WorkspacePane.vue lines 95-109.
emit(ws, p, event, tabId) ==
  CASE event = "close" -> closeTab(ws, p, tabId)
    [] event = "close-others" -> closeOtherTabs(ws, p, tabId)
    [] event = "close-saved" -> closeSavedTabs(ws, p)
    [] event = "close-to-right" -> closeTabsToRight(ws, p, tabId)

\* handleClose, lines 136-149: the close button, the middle click (lines
\* 129-134) and the Close item of the context menu (line 195).
handleClose(ws, p, tabId) ==
  LET tabs == TabsOf(ws, p)
      i == FindIndex(tabs, tabId) IN
  IF i # 0 /\ tabs[i].isDirty
  THEN [ws |-> ws, confirmation |-> Require(p, "close", tabId)]
  ELSE [ws |-> emit(ws, p, "close", tabId), confirmation |-> <<>>]

\* handleCloseOthers, lines 151-167, with contextTabId the tab the menu is for.
handleCloseOthers(ws, p, contextTabId) ==
  LET tabs == TabsOf(ws, p) IN
  IF \E i \in 1..Len(tabs) : tabs[i].id # contextTabId /\ tabs[i].isDirty
  THEN [ws |-> ws, confirmation |-> Require(p, "close-others", contextTabId)]
  ELSE [ws |-> emit(ws, p, "close-others", contextTabId), confirmation |-> <<>>]

\* handleCloseSaved, lines 169-171.
handleCloseSaved(ws, p) ==
  [ws |-> emit(ws, p, "close-saved", null), confirmation |-> <<>>]

\* handleCloseToRight, lines 173-189: findIndex gives -1 for a tab that is not
\* there, and slice(0) is then the whole list.
handleCloseToRight(ws, p, contextTabId) ==
  LET tabs == TabsOf(ws, p)
      idx == FindIndex(tabs, contextTabId) IN
  IF \E i \in (idx + 1)..Len(tabs) : tabs[i].isDirty
  THEN [ws |-> ws, confirmation |-> Require(p, "close-to-right", contextTabId)]
  ELSE [ws |-> emit(ws, p, "close-to-right", contextTabId), confirmation |-> <<>>]

\* A handler of the strip has run and left the workspace ws2 and the dialog conf2.
ConfirmStep(U, ws2, conf2) ==
  /\ Render(U, ws2, DK, pointer, FALSE, TB)
  /\ confirmation' = conf2
  /\ UNCHANGED txVars

\* The dialog is modal: the strip takes clicks while it is not up.
HandleClose(U) ==
  \E p \in LivePaneIds(WS), t \in TabIdArgs(U) :
    /\ confirmation = <<>>
    /\ HasId(TabsOf(WS, p), t)
    /\ \E r \in {handleClose(WS, p, t)} : ConfirmStep(U, r.ws, r.confirmation)

\* The menu may be for a tab that was closed since it opened.
HandleCloseOthers(U) ==
  \E p \in LivePaneIds(WS), t \in TabIdArgs(U) :
    /\ confirmation = <<>>
    /\ \E r \in {handleCloseOthers(WS, p, t)} : ConfirmStep(U, r.ws, r.confirmation)

HandleCloseSaved(U) ==
  \E p \in LivePaneIds(WS) :
    /\ confirmation = <<>>
    /\ \E r \in {handleCloseSaved(WS, p)} : ConfirmStep(U, r.ws, r.confirmation)

HandleCloseToRight(U) ==
  \E p \in LivePaneIds(WS), t \in TabIdArgs(U) :
    /\ confirmation = <<>>
    /\ \E r \in {handleCloseToRight(WS, p, t)} : ConfirmStep(U, r.ws, r.confirmation)

\* The user accepts: the accept callback emits the event.
AcceptConfirm(U) ==
  /\ confirmation # <<>>
  /\ ConfirmStep(U, emit(WS, confirmation[1].pane, confirmation[1].event,
                         confirmation[1].tabId), <<>>)

RejectConfirm(U) ==
  /\ confirmation # <<>>
  /\ ConfirmStep(U, WS, <<>>)

\* Tabs are edited, saved and closed; the keyboard shortcuts of
\* DatabaseView.vue lines 437-451 work whether the dialog is up or not.
UConfirm == [gen |-> ConfirmPaneIds, tabs |-> ConfirmTabIds, keys |-> 1,
             cap |-> ConfirmTabs, dirty |-> BOOLEAN, force |-> {TRUE},
             stale |-> FALSE, dom |-> FALSE]

NextConfirm ==
  \/ OpenTab(UConfirm)
  \/ SetTabDirty(UConfirm)
  \/ HandleClose(UConfirm)
  \/ HandleCloseOthers(UConfirm)
  \/ HandleCloseSaved(UConfirm)
  \/ HandleCloseToRight(UConfirm)
  \/ AcceptConfirm(UConfirm)
  \/ RejectConfirm(UConfirm)
  \/ CloseActiveTab(UConfirm)
  \/ NextTab(UConfirm)
  \/ PreviousTab(UConfirm)

SpecConfirm == Init /\ [][NextConfirm]_vars

\* ---- generateId as a random draw (part_003 lines 53-55) ------------------
\* generateId returns up to seven base-36 digits of Math.random() and looks at
\* no id in use: what it returns for a tab is any id of the pool, and for a
\* pane any id of the pool or "main", which is four base-36 digits.
generateId(U, kind) == IF kind = "tab" THEN TabIdSet(U.tabs) ELSE {Main} \cup PaneIdSet(U.gen)

OpenTabAnyId(U) ==
  \E key \in KeySet(U.keys), forceNew \in U.force, newId \in generateId(U, "tab") :
    /\ Call(U, openTab(WS, key, forceNew, newId).ws)

SplitPaneAnyId(U) ==
  \E target \in PaneArgs(U), position \in Positions, tabOpt \in TabOptArgs(U, WS),
     newId \in generateId(U, "pane") :
    /\ Call(U, splitPane(WS, target, position, tabOpt, newId))

UIds == [gen |-> IdsPaneIds, tabs |-> IdsTabIds, keys |-> 1, cap |-> IdsTabs,
         dirty |-> {FALSE}, force |-> BOOLEAN, stale |-> FALSE, dom |-> FALSE]

NextIds ==
  \/ OpenTabAnyId(UIds)
  \/ SplitPaneAnyId(UIds)
  \/ CloseTab(UIds)
  \/ ClosePane(UIds)
  \/ SetActivePane(UIds)

SpecIds == Init /\ [][NextIds]_vars

\* ---- transactions (stores/transaction.ts, DatabaseView.vue 370-435) ------
\* The refs of the transaction store as one value.
TX == [autoCommit |-> autoCommit, inTransaction |-> inTransaction, loading |-> loading]

\* toggleAutoCommit of the store, transaction.ts lines 55-57.
storeToggleAutoCommit(tx) == [tx EXCEPT !.autoCommit = ~tx.autoCommit]

\* beginTransaction, commit and rollback (lines 14-42) up to their await: loading
\* is set and the command is sent to the backend.
invoke(tx, reqs, command, connectionId) ==
  [tx |-> [tx EXCEPT !.loading = TRUE],
   requests |-> Append(reqs, [command |-> command, connectionId |-> connectionId])]

\* The same three from their await on, the backend having answered the request
\* req: on success the connection is marked (begin) or unmarked (commit,
\* rollback), and finally loading is cleared.
resume(tx, req, ok) ==
  IF ok
  THEN [tx EXCEPT !.inTransaction[req.connectionId] = (req.command = "begin"),
                  !.loading = FALSE]
  ELSE [tx EXCEPT !.loading = FALSE]

\* toggleAutoCommit of the view, DatabaseView.vue lines 412-435, up to its await.
toggleAutoCommit(tx, reqs, id) ==
  LET tx1 == storeToggleAutoCommit(tx) IN
  IF ~tx1.autoCommit THEN invoke(tx1, reqs, "begin", id)
  ELSE IF tx1.inTransaction[id] THEN invoke(tx1, reqs, "commit", id)
  ELSE [tx |-> tx1, requests |-> reqs]

\* What follows the await in the view: the catch of lines 424-432 toggles back
\* when beginTransaction failed; handleCommit and handleRollback (lines 374-410)
\* and the commit of line 434 only raise toasts or let the error go.
settled(tx, req, ok) ==
  IF ~ok /\ req.command = "begin"
  THEN storeToggleAutoCommit(resume(tx, req, ok))
  ELSE resume(tx, req, ok)

\* A handler of the transaction controls has run.
TxStep(tx2, reqs2, view2) ==
  /\ autoCommit' = tx2.autoCommit
  /\ inTransaction' = tx2.inTransaction
  /\ loading' = tx2.loading
  /\ requests' = reqs2
  /\ view' = view2
  /\ UNCHANGED <<storeVars, dockVars, stripVars>>

\* The auto-commit switch (lines 499-503) is flipped.
ToggleAutoCommit ==
  /\ Len(requests) < MaxRequests
  /\ \E r \in {toggleAutoCommit(TX, requests, view)} : TxStep(r.tx, r.requests, view)

\* The Commit and Rollback buttons (lines 505-523) are there while the
\* connection is marked, and are disabled while loading is set.
HandleCommit ==
  /\ Len(requests) < MaxRequests
  /\ inTransaction[view]
  /\ ~loading
  /\ \E r \in {invoke(TX, requests, "commit", view)} : TxStep(r.tx, r.requests, view)

HandleRollback ==
  /\ Len(requests) < MaxRequests
  /\ inTransaction[view]
  /\ ~loading
  /\ \E r \in {invoke(TX, requests, "rollback", view)} : TxStep(r.tx, r.requests, view)

\* The backend answers one of the calls, with success or with an error.
BackendAnswers ==
  \E i \in 1..Len(requests), ok \in BOOLEAN :
    /\ TxStep(settled(TX, requests[i], ok), RemoveAt(requests, i), view)

\* The route changes to the view of another connection (router.ts lines 12-15).
Navigate ==
  \E c \in Connections :
    /\ c # view
    /\ TxStep(TX, requests, c)

NextTx ==
  \/ ToggleAutoCommit
  \/ HandleCommit
  \/ HandleRollback
  \/ BackendAnswers
  \/ Navigate

SpecTx == Init /\ [][NextTx]_vars

\* ---- the claims ---------------------------------------------------------
PaneOf(ws, paneId) == ws.panes[PaneIndex(ws.panes, paneId)]

\* How often the id occurs in all panes together.
Occurrences(ws, id) ==
  Cardinality({i \in 1..Len(AllTabs(ws.panes)) : AllTabs(ws.panes)[i].id = id})

\* C1: every open tab id is in the tabs of exactly one pane, exactly once.
C1_TabInExactlyOnePane == \A id \in LiveTabIds(WS) : Occurrences(WS, id) = 1

\* C2: every pane's activeTabId is null or the id of a tab of that pane.
C2_ActiveTabInPane ==
  \A i \in 1..Len(panes) :
    panes[i].activeTabId = null \/ HasId(panes[i].tabs, panes[i].activeTabId)

\* C3: activePaneId is the id of a pane present in panes.
C3_ActivePaneExists == activePaneId \in LivePaneIds(WS)

\* The workspace keeps its only pane, emptied and with no active tab.
EmptiedSolePane(ws, w2) ==
  /\ Len(w2.panes) = 1
  /\ w2.panes[1].id = ws.panes[1].id
  /\ w2.panes[1].tabs = <<>>
  /\ w2.panes[1].activeTabId = null

\* C4: there are between 1 and MaxPanes panes; and when the only pane holds its
\* last tab, each of closeTab, closeSavedTabs, removeTabFromPane and
\* closeActiveTab that closes it leaves the pane present, empty, activeTabId null.
C4_PaneCountAndSolePaneSurvives ==
  /\ Len(panes) >= 1
  /\ Len(panes) <= MaxPanes
  /\ (Len(panes) = 1 /\ Len(panes[1].tabs) = 1) =>
       \A w2 \in {closeTab(WS, panes[1].id, panes[1].tabs[1].id),
                  closeSavedTabs(WS, panes[1].id),
                  removeTabFromPane(WS, panes[1].id, panes[1].tabs[1].id),
                  closeActiveTab(WS)} :
         Len(AllTabs(w2.panes)) = 0 => EmptiedSolePane(WS, w2)

\* The first half of C4 alone.
PaneCountInRange == Len(panes) >= 1 /\ Len(panes) <= MaxPanes

\* C5: a single pane has no split direction.
C5_SinglePaneNoSplit == Len(panes) = 1 => splitDirection = null

\* C5's case: the one pane left was created by splitPane, which set the
\* direction; the panes around it, "main" among them, were closed since.
C5_Witness == Len(panes) = 1 /\ panes[1].id # Main /\ splitDirection = null

\* C6: the pane "main" is present.
C6_MainPresent == Main \in LivePaneIds(WS)

\* The tab sequences of all panes, pane by pane.
TabLists(ws) == [i \in 1..Len(ws.panes) |-> ws.panes[i].tabs]

PaneIdList(ws) == [i \in 1..Len(ws.panes) |-> ws.panes[i].id]

\* openTab(key) called twice in a row from ws without forceNew: both calls return
\* the same id, the second adds no tab, and the tab returned is in the active
\* pane and is its active tab.
OpenTwice(ws, key, n) ==
  LET r1 == openTab(ws, key, FALSE, generateTabId(ws, n))
      r2 == openTab(r1.ws, key, FALSE, generateTabId(r1.ws, n))
      api == activePaneIndex(r2.ws)
  IN /\ r2.ret = r1.ret
     /\ Len(AllTabs(r2.ws.panes)) = Len(AllTabs(r1.ws.panes))
     /\ api # 0
     /\ r2.ws.panes[api].activeTabId = r2.ret
     /\ HasId(r2.ws.panes[api].tabs, r2.ret)

\* C7: openTab is idempotent: for every key, two calls in a row without forceNew
\* return the same tab id, the second leaves the number of tabs unchanged, and
\* the tab is active in the active pane.
C7_OpenTabIdempotent ==
  \A key \in KeySet(NumKeys) :
    (openTabCreates(WS, key, FALSE) => FreshTabIds(WS, KeyTabIds) # {})
      => OpenTwice(WS, key, KeyTabIds)

\* What holds of openTab where activePaneId names a pane.
OpenTabIdempotentInLivePane ==
  \A key \in KeySet(NumKeys) :
    (/\ activePaneId \in LivePaneIds(WS)
     /\ openTabCreates(WS, key, FALSE) => FreshTabIds(WS, KeyTabIds) # {})
      => OpenTwice(WS, key, KeyTabIds)

\* C8: with forceNew never passed, no pane holds two distinct tabs with the same
\* (connectionId, type, schema, table).
C8_NoDuplicateKeyInPane ==
  \A i \in 1..Len(panes) :
    \A j, k \in 1..Len(panes[i].tabs) :
      (panes[i].tabs[j].id # panes[i].tabs[k].id)
        => panes[i].tabs[j].key # panes[i].tabs[k].key

\* moveTab(A, B, t, i) then moveTab(B, A, t, i0) from ws gives back every pane's
\* tab sequence and the panes themselves.
RoundTrip(ws, A, B, t, i, i0) ==
  LET w1 == moveTab(ws, A, B, t, i)
      w2 == moveTab(w1, B, A, t, i0)
  IN /\ TabLists(w2) = TabLists(ws)
     /\ PaneIdList(w2) = PaneIdList(ws)
     /\ PaneIdList(w1) = PaneIdList(ws)

\* C9: for distinct panes A and B, a tab t at index i0 of A and an index i of B,
\* moveTab(A, B, t, i) followed by moveTab(B, A, t, i0) restores every pane's tab
\* sequence and leaves the panes the same.
C9_MoveTabRoundTrip ==
  \A a, b \in 1..Len(panes) :
    a # b =>
      \A k \in 1..Len(panes[a].tabs), i \in 0..Len(panes[b].tabs) :
        RoundTrip(WS, panes[a].id, panes[b].id, panes[a].tabs[k].id, i, k - 1)

\* What holds of moveTab where no tab id is in two places.
MoveTabRoundTripOfUniqueTabs ==
  C1_TabInExactlyOnePane => C9_MoveTabRoundTrip

\* The sequence s without its k-th element.
Without(s, k) == [j \in 1..(Len(s) - 1) |-> IF j < k THEN s[j] ELSE s[j + 1]]

\* The panes of w2 are those of ws without the pi-th, and the active pane, if it
\* was that one, is now one of them.
PaneRemoved(ws, w2, pi) ==
  /\ w2.panes = Without(ws.panes, pi)
  /\ ws.activePaneId = ws.panes[pi].id => w2.activePaneId \in LivePaneIds(w2)
  /\ ws.activePaneId # ws.panes[pi].id => w2.activePaneId = ws.activePaneId

\* The panes of w2 are those of ws, the pi-th without its k-th tab.
TabRemoved(ws, w2, pi, k) ==
  /\ PaneIdList(w2) = PaneIdList(ws)
  /\ w2.panes[pi].tabs = Without(ws.panes[pi].tabs, k)
  /\ \A q \in 1..Len(ws.panes) : q # pi => w2.panes[q] = ws.panes[q]
  /\ w2.activePaneId = ws.activePaneId

\* The active tab of the pi-th pane after its k-th tab was closed: the tab before
\* it, the new first tab if it was first, null if none is left; unchanged if the
\* closed tab was not the active one.
FallsBack(ws, w2, pi, k) ==
  LET pane == ws.panes[pi] IN
  w2.panes[pi].activeTabId =
    IF pane.activeTabId # pane.tabs[k].id THEN pane.activeTabId
    ELSE IF Len(pane.tabs) = 1 THEN null
    ELSE IF k = 1 THEN pane.tabs[2].id
    ELSE pane.tabs[k - 1].id

\* C10: closeTab on a tab of a pane removes exactly that tab; an active tab closed
\* falls back to the tab before it (the new first tab, or null); a pane left
\* empty while other panes exist is removed in the same call, and the active pane
\* is then one of the panes left.  removeTabFromPane removes the pane the same way.
C10_CloseTabEffect ==
  \A pi \in 1..Len(panes) :
    \A k \in 1..Len(panes[pi].tabs) :
      FindIndex(panes[pi].tabs, panes[pi].tabs[k].id) = k =>
        LET w2 == closeTab(WS, panes[pi].id, panes[pi].tabs[k].id)
            r2 == removeTabFromPane(WS, panes[pi].id, panes[pi].tabs[k].id)
        IN IF Len(panes[pi].tabs) = 1 /\ Len(panes) > 1
           THEN PaneRemoved(WS, w2, pi) /\ PaneRemoved(WS, r2, pi)
           ELSE /\ TabRemoved(WS, w2, pi, k)
                /\ FallsBack(WS, w2, pi, k)
                /\ TabRemoved(WS, r2, pi, k)

\* C10's cases in one state: the active pane holds one tab, active, and closeTab
\* on it removes the pane and makes the other pane active; the other pane holds
\* two tabs, the second active, and closeTab on that one activates the one before.
C10_Witness ==
  /\ Len(panes) = 2
  /\ \E a, b \in 1..2 :
       /\ a # b
       /\ activePaneId = panes[a].id
       /\ Len(panes[a].tabs) = 1
       /\ panes[a].activeTabId = panes[a].tabs[1].id
       /\ closeTab(WS, panes[a].id, panes[a].tabs[1].id).panes = <<panes[b]>>
       /\ closeTab(WS, panes[a].id, panes[a].tabs[1].id).activePaneId = panes[b].id
       /\ Len(panes[b].tabs) = 2
       /\ panes[b].tabs[1].id # panes[b].tabs[2].id
       /\ panes[b].activeTabId = panes[b].tabs[2].id
       /\ closeTab(WS, panes[b].id, panes[b].tabs[2].id).panes[b].activeTabId
            = panes[b].tabs[1].id

\* The pane of w2 with the id of the pi-th pane of ws, 0 for none.
After(ws, w2, pi) == PaneIndex(w2.panes, ws.panes[pi].id)

\* What closeTab guarantees, asked of a bulk close that took ws to w2 on the pi-th
\* pane: the pane, if still there, has activeTabId null or a tab of its own, and a
\* pane left without tabs while other panes exist is gone.
BulkCloseRules(ws, w2, pi) ==
  LET q == After(ws, w2, pi) IN
  /\ q # 0 => (w2.panes[q].activeTabId = null
                \/ HasId(w2.panes[q].tabs, w2.panes[q].activeTabId))
  /\ (q # 0 /\ Len(ws.panes) > 1) => w2.panes[q].tabs # <<>>

\* C11: closeOtherTabs, closeSavedTabs and closeTabsToRight follow closeTab's rules:
\* afterwards the pane's activeTabId is null or a tab still in the pane, and a
\* pane the bulk close left empty while another pane exists is removed.
C11_BulkCloseRules ==
  \A pi \in 1..Len(panes) :
    /\ BulkCloseRules(WS, closeSavedTabs(WS, panes[pi].id), pi)
    /\ \A t \in TabIdArgs(USpec) :
         /\ BulkCloseRules(WS, closeOtherTabs(WS, panes[pi].id, t), pi)
         /\ BulkCloseRules(WS, closeTabsToRight(WS, panes[pi].id, t), pi)

\* C12: a step that empties the tab list of a pane while another pane exists
\* removes that pane: no pane that held tabs before a step is there, with no
\* tabs, after it, unless it is the only pane left.
C12_EmptiedPaneRemoved ==
  [][\A i \in 1..Len(panes) : \A j \in 1..Len(panes') :
       (/\ panes[i].tabs # <<>>
        /\ panes'[j].id = panes[i].id
        /\ Len(panes') > 1)
         => panes'[j].tabs # <<>>]_vars

\* C13: with MaxPanes panes, splitPane leaves the whole workspace as it was, for
\* every target, position and tab argument.
C13_SplitPaneAtMaxIsNoOp ==
  Len(panes) = MaxPanes =>
    \A target \in PaneArgs(UPanes), position \in Positions, tabOpt \in TabOptArgs(UPanes, WS) :
      splitPane(WS, target, position, tabOpt, generatePaneId(WS, MaxPanes)) = WS

\* C13's case: MaxPanes panes, a tab among them that a split could take.
C13_Witness ==
  /\ Len(panes) = MaxPanes
  /\ LiveTabs(WS) # {}
  /\ splitPane(WS, panes[1].id, "right", <<CHOOSE t \in LiveTabs(WS) : TRUE>>,
               generatePaneId(WS, MaxPanes)) = WS

\* splitPane took ws to w2 by adding the pane newId at position k of the panes, next
\* to the pane that is now at position tk.
SplitAdds(ws, w2, newId, k, tk, targetPaneId) ==
  /\ k \in 1..Len(w2.panes)
  /\ tk \in 1..Len(w2.panes)
  /\ w2.panes[k].id = newId
  /\ w2.panes[tk].id = targetPaneId
  /\ Without(PaneIdList(w2), k) = PaneIdList(ws)

\* C14: splitPane on an existing target with fewer than MaxPanes panes adds one
\* pane: right before the target for left and top, right after it for right and
\* bottom; the split direction is horizontal for top and bottom and vertical for
\* left and right; the new pane is the active pane; the panes there before keep
\* their order.
C14_SplitPanePlacement ==
  (Len(panes) < MaxPanes /\ FreshPaneIds(WS, MaxPanes - 1) # {}) =>
    \A ti \in 1..Len(panes), position \in Positions, tabOpt \in TabOptArgs(UPanes, WS) :
      LET newId == generatePaneId(WS, MaxPanes - 1)
          w2 == splitPane(WS, panes[ti].id, position, tabOpt, newId)
      IN /\ Len(w2.panes) = Len(panes) + 1
         /\ IF position \in {"left", "top"}
            THEN SplitAdds(WS, w2, newId, ti, ti + 1, panes[ti].id)
            ELSE SplitAdds(WS, w2, newId, ti + 1, ti, panes[ti].id)
         /\ w2.splitDirection =
              IF position \in {"top", "bottom"} THEN "horizontal" ELSE "vertical"
         /\ w2.activePaneId = newId

\* C14's case: three panes, and a split at the top of the last of them puts the
\* fourth pane between the second and the third.
C14_Witness ==
  /\ Len(panes) = MaxPanes - 1
  /\ FreshPaneIds(WS, MaxPanes - 1) # {}
  /\ LET w2 == splitPane(WS, panes[3].id, "top", <<>>, generatePaneId(WS, MaxPanes - 1))
     IN /\ PaneIdList(w2) = <<panes[1].id, panes[2].id, generatePaneId(WS, MaxPanes - 1),
                              panes[3].id>>
        /\ w2.splitDirection = "horizontal"
        /\ splitDirection = "vertical"

\* The pane with the given id holds no tab with the id of the tab.
NowhereElse(w2, newId, tabId) ==
  \A q \in 1..Len(w2.panes) : w2.panes[q].id # newId => ~HasId(w2.panes[q].tabs, tabId)

\* Every pane of ws that had the tab as its active tab has, in w2, its first tab
\* or null as its active tab.
LosersFallBack(ws, w2, tabId) ==
  \A i \in 1..Len(ws.panes) :
    (HasId(ws.panes[i].tabs, tabId) /\ ws.panes[i].activeTabId = tabId) =>
      LET q == After(ws, w2, i) IN
      /\ q # 0
      /\ w2.panes[q].activeTabId = IdAt(w2.panes[q].tabs, 1)

\* C15: splitPane with a tab moves the tab: the new pane holds exactly the tab, as
\* its active tab; no other pane holds a tab with its id; a pane that lost it as
\* its active tab has its first tab, or null, active.  From the single pane "main"
\* with one tab, splitPane("main", "right", tab) gives two panes, a vertical split,
\* "main" with no tabs and the new pane, active, with the tab.
C15_SplitPaneMovesTab ==
  (Len(panes) < MaxPanes /\ FreshPaneIds(WS, NumPaneIds) # {}) =>
    \A target \in PaneArgs(USpec), position \in Positions, tab \in TabArgs(USpec, WS) :
      LET newId == generatePaneId(WS, NumPaneIds)
          w2 == splitPane(WS, target, position, <<tab>>, newId)
          k == PaneIndex(w2.panes, newId)
      IN /\ k # 0
         /\ w2.panes[k].tabs = <<tab>>
         /\ w2.panes[k].activeTabId = tab.id
         /\ NowhereElse(w2, newId, tab.id)
         /\ LosersFallBack(WS, w2, tab.id)
         /\ (panes = <<[id |-> Main, tabs |-> <<tab>>, activeTabId |-> tab.id]>>
             /\ target = Main /\ position = "right")
              => /\ w2.panes = <<[id |-> Main, tabs |-> <<>>, activeTabId |-> null],
                                 [id |-> newId, tabs |-> <<tab>>, activeTabId |-> tab.id]>>
                 /\ w2.splitDirection = "vertical"
                 /\ w2.activePaneId = newId

\* What holds of splitPane where no tab id is in two places.
SplitPaneMovesUniqueTab == C1_TabInExactlyOnePane => C15_SplitPaneMovesTab

\* The case of SplitPaneMovesUniqueTab: the only pane is "main", its two tabs
\* differ, and a split takes the active one of them.
SplitPaneMovesUniqueTab_Case ==
  /\ Len(panes) = 1
  /\ panes[1].id = Main
  /\ Len(panes[1].tabs) = 2
  /\ panes[1].tabs[1].id # panes[1].tabs[2].id
  /\ panes[1].activeTabId = panes[1].tabs[2].id

\* C16: closePane changes nothing when there is one pane; with more, it removes
\* the pane and no other, keeps the order of the rest, makes the first pane left
\* the active one if the pane removed was active and leaves activePaneId alone
\* if not, and resets the split direction when one pane is left.
C16_ClosePaneEffect ==
  \A pi \in 1..Len(panes) :
    LET w2 == closePane(WS, panes[pi].id) IN
    IF Len(panes) = 1 THEN w2 = WS
    ELSE /\ w2.panes = Without(panes, pi)
         /\ w2.activePaneId =
              IF activePaneId = panes[pi].id THEN Without(panes, pi)[1].id ELSE activePaneId
         /\ w2.splitDirection = IF Len(panes) = 2 THEN null ELSE splitDirection

\* C16's case: three panes, the second one active; closing it makes the first one
\* active and keeps the split, closing the third one leaves the second active.
C16_Witness ==
  /\ Len(panes) = 3
  /\ activePaneId = panes[2].id
  /\ splitDirection # null
  /\ closePane(WS, panes[2].id).panes = <<panes[1], panes[3]>>
  /\ closePane(WS, panes[2].id).activePaneId = panes[1].id
  /\ closePane(WS, panes[2].id).splitDirection = splitDirection
  /\ closePane(WS, panes[3].id).activePaneId = panes[2].id

\* The pane ids of the pool that name no pane of the workspace.
MissingPanes(U, ws) == PaneArgs(U) \ LivePaneIds(ws)

\* C17: an operation given the id of no existing pane leaves the workspace as it
\* was: closeTab, closeOtherTabs, closeSavedTabs, closeTabsToRight, setTabs,
\* reorderTabs, addTabToPane, removeTabFromPane, setActiveTab, closePane, and
\* moveTab with the source or the target pane missing.
C17_MissingPaneIsNoOp ==
  \A p \in MissingPanes(USpec, WS) :
    /\ closeSavedTabs(WS, p) = WS
    /\ closePane(WS, p) = WS
    /\ \A t \in TabIdArgs(USpec) :
         /\ closeTab(WS, p, t) = WS
         /\ closeOtherTabs(WS, p, t) = WS
         /\ closeTabsToRight(WS, p, t) = WS
         /\ removeTabFromPane(WS, p, t) = WS
         /\ setActiveTab(WS, p, t) = WS
         /\ \A q \in PaneArgs(USpec), i \in IndexArgs(USpec) :
              /\ moveTab(WS, p, q, t, i) = WS
              /\ moveTab(WS, q, p, t, i) = WS
    /\ \A tabs \in TabSeqArgs(USpec, WS) :
         /\ setTabs(WS, p, tabs) = WS
         /\ reorderTabs(WS, p, tabs) = WS
    /\ \A tab \in TabArgs(USpec, WS), i \in IndexArgs(USpec) :
         addTabToPane(WS, p, tab, i) = WS

\* C17's case: "main" was closed and the pane left holds tabs, so that a move to
\* "main" names a tab that is there and a pane that is not.
C17_Witness ==
  /\ Main \in MissingPanes(USpec, WS)
  /\ Len(panes) = 1
  /\ Len(panes[1].tabs) = 2
  /\ moveTab(WS, panes[1].id, Main, panes[1].tabs[1].id, 0) = WS
  /\ closeTab(WS, Main, panes[1].tabs[1].id) = WS

\* The tab ids of the pool that the pi-th pane does not hold.
MissingTabs(U, ws, pi) == {t \in TabIdArgs(U) : ~HasId(ws.panes[pi].tabs, t)}

\* C18: an operation given an existing pane and the id of a tab that is not in it
\* (in no pane, for setTabDirty) leaves the workspace as it was: closeTab,
\* closeOtherTabs, closeTabsToRight, removeTabFromPane, moveTab, setActiveTab,
\* setTabDirty.
C18_MissingTabIsNoOp ==
  /\ \A pi \in 1..Len(panes) : \A t \in MissingTabs(USpec, WS, pi) :
       /\ closeTab(WS, panes[pi].id, t) = WS
       /\ closeOtherTabs(WS, panes[pi].id, t) = WS
       /\ closeTabsToRight(WS, panes[pi].id, t) = WS
       /\ removeTabFromPane(WS, panes[pi].id, t) = WS
       /\ setActiveTab(WS, panes[pi].id, t) = WS
       /\ \A q \in PaneArgs(USpec), i \in IndexArgs(USpec) :
            moveTab(WS, panes[pi].id, q, t, i) = WS
  /\ \A t \in TabIdArgs(USpec) \ LiveTabIds(WS) : \A d \in BOOLEAN :
       setTabDirty(WS, t, d) = WS

\* What holds of the operations of C18 other than closeOtherTabs and setActiveTab.
MissingTabIsNoOpElsewhere ==
  /\ \A pi \in 1..Len(panes) : \A t \in MissingTabs(USpec, WS, pi) :
       /\ closeTab(WS, panes[pi].id, t) = WS
       /\ closeTabsToRight(WS, panes[pi].id, t) = WS
       /\ removeTabFromPane(WS, panes[pi].id, t) = WS
       /\ \A q \in PaneArgs(USpec), i \in IndexArgs(USpec) :
            moveTab(WS, panes[pi].id, q, t, i) = WS
  /\ \A t \in TabIdArgs(USpec) \ LiveTabIds(WS) : \A d \in BOOLEAN :
       setTabDirty(WS, t, d) = WS

\* C19: splitPane on a target that names no pane changes nothing: no pane is
\* added, no tab is moved, activePaneId and splitDirection stay.
C19_SplitPaneMissingTargetIsNoOp ==
  \A target \in MissingPanes(USpec, WS), position \in Positions,
     tabOpt \in TabOptArgs(USpec, WS) :
    splitPane(WS, target, position, tabOpt, generatePaneId(WS, NumPaneIds)) = WS

\* The dirty tabs of s, in the order of s.
RECURSIVE DirtyOnly(_)
DirtyOnly(s) ==
  IF s = <<>> THEN <<>>
  ELSE IF Head(s).isDirty THEN <<Head(s)>> \o DirtyOnly(Tail(s))
  ELSE DirtyOnly(Tail(s))

\* C20: closeSavedTabs on a pane removes exactly its tabs that are not dirty: the
\* pane is left with its dirty tabs in their order (or, left without tabs next to
\* other panes, is removed), and the tabs of every other pane are as before.
C20_CloseSavedKeepsDirty ==
  \A pi \in 1..Len(panes) :
    LET w2 == closeSavedTabs(WS, panes[pi].id)
        kept == DirtyOnly(panes[pi].tabs)
    IN IF kept = <<>> /\ Len(panes) > 1
       THEN TabLists(w2) = Without(TabLists(WS), pi)
       ELSE /\ PaneIdList(w2) = PaneIdList(WS)
            /\ w2.panes[pi].tabs = kept
            /\ \A q \in 1..Len(panes) : q # pi => w2.panes[q].tabs = panes[q].tabs

\* What holds of closeSavedTabs where no tab id is in two places.
CloseSavedKeepsDirtyOfUniqueTabs == C1_TabInExactlyOnePane => C20_CloseSavedKeepsDirty

\* The case of CloseSavedKeepsDirtyOfUniqueTabs: a pane next to another holds a
\* saved tab and a dirty one, and closeSavedTabs leaves it the dirty one.
CloseSavedKeepsDirtyOfUniqueTabs_Case ==
  /\ C1_TabInExactlyOnePane
  /\ Len(panes) > 1
  /\ \E pi \in 1..Len(panes) :
       /\ Len(panes[pi].tabs) = 2
       /\ ~panes[pi].tabs[1].isDirty
       /\ panes[pi].tabs[2].isDirty
       /\ closeSavedTabs(WS, panes[pi].id).panes[pi].tabs = <<panes[pi].tabs[2]>>

\* C21: addTabToPane on an existing pane puts the tab at the given position of
\* the pane's tabs, the tabs that were there keeping their order around it, and
\* makes it the pane's active tab; when the pane already holds a tab with the
\* tab's id the call changes nothing.
C21_AddTabToPaneEffect ==
  \A pi \in 1..Len(panes) : \A tab \in TabArgs(USpec, WS), index \in 0..Len(panes[pi].tabs) :
    LET w2 == addTabToPane(WS, panes[pi].id, tab, index) IN
    IF HasId(panes[pi].tabs, tab.id) THEN w2 = WS
    ELSE /\ Len(w2.panes[pi].tabs) = Len(panes[pi].tabs) + 1
         /\ w2.panes[pi].tabs[index + 1] = tab
         /\ Without(w2.panes[pi].tabs, index + 1) = panes[pi].tabs
         /\ w2.panes[pi].activeTabId = tab.id

\* C21's case: a pane holds two tabs, the second one active; a third tab added at
\* index 1 lands between them and is active, and adding the first tab again
\* changes nothing.
C21_Witness ==
  \E pi \in 1..Len(panes) : \E tab \in TabArgs(USpec, WS) :
    /\ Len(panes[pi].tabs) = 2
    /\ panes[pi].activeTabId = panes[pi].tabs[2].id
    /\ ~HasId(panes[pi].tabs, tab.id)
    /\ addTabToPane(WS, panes[pi].id, tab, 1).panes[pi].tabs
         = <<panes[pi].tabs[1], tab, panes[pi].tabs[2]>>
    /\ addTabToPane(WS, panes[pi].id, tab, 1).panes[pi].activeTabId = tab.id
    /\ addTabToPane(WS, panes[pi].id, panes[pi].tabs[1], 2) = WS

\* What openTab promises of one call from ws: the id returned is a tab of the
\* active pane and its active tab; and when the call had no tab to reuse, the
\* active pane has one tab more, the new tab with isDirty false at its end, and
\* every other pane is as it was.
OpenTabPromise(ws, key, forceNew, newId) ==
  LET r == openTab(ws, key, forceNew, newId)
      api == activePaneIndex(ws)
  IN /\ api # 0
     /\ PaneIdList(r.ws) = PaneIdList(ws)
     /\ r.ws.activePaneId = ws.activePaneId
     /\ HasId(r.ws.panes[api].tabs, r.ret)
     /\ r.ws.panes[api].activeTabId = r.ret
     /\ (forceNew \/ FindKey(ws.panes[api].tabs, key) = 0) =>
          /\ r.ws.panes[api].tabs
               = Append(ws.panes[api].tabs, [id |-> r.ret, key |-> key, isDirty |-> FALSE])
          /\ \A q \in 1..Len(ws.panes) : q # api => r.ws.panes[q] = ws.panes[q]

\* C22: after any openTab call the value returned is the id of a tab of the active
\* pane that is the pane's active tab; and a call with no matching tab, or with
\* forceNew, appended exactly one tab, with isDirty false, to the active pane and
\* changed no other pane.
C22_OpenTabResult ==
  \A key \in KeySet(NumKeys), forceNew \in BOOLEAN :
    (openTabCreates(WS, key, forceNew) => FreshTabIds(WS, KeyTabIds) # {})
      => OpenTabPromise(WS, key, forceNew, generateTabId(WS, KeyTabIds))

\* What holds of openTab where activePaneId names a pane.
OpenTabResultInLivePane ==
  activePaneId \in LivePaneIds(WS) => C22_OpenTabResult

Edges == {"left", "right", "top", "bottom"}

\* The snapshot endDrag returns when the drag state holds nothing.
NoResult ==
  [tab |-> <<>>, sourcePaneId |-> null, targetPaneId |-> null, dropPosition |-> null]

\* C23: endDrag returns the drag state as it is at the call and leaves isDragging
\* false and the four other fields null; called when no drag is in progress it
\* returns nulls only and changes nothing.
C23_EndDragSnapshot ==
  LET r == endDrag(dragState) IN
  /\ r.result = [tab |-> dragState.draggedTab, sourcePaneId |-> dragState.sourcePaneId,
                 targetPaneId |-> dragState.targetPaneId,
                 dropPosition |-> dragState.dropPosition]
  /\ r.ds = NoDrag
  /\ ~dragState.isDragging => (r.result = NoResult /\ r.ds = dragState)

\* C24: when no drag is in progress the drag state holds nothing: draggedTab,
\* sourcePaneId, targetPaneId and dropPosition are null.
C24_DragStateOnlyWhileDragging ==
  ~dragState.isDragging => dragState = NoDrag

\* C25: a step writes an edge position X for a pane P into the drag state only
\* when P's hover timer for X is pending and X is P's pending position; and a
\* timer left pending by a step is for the pending position of its pane, so that
\* a position the pointer has moved away from is never committed.
C25_HoverConfirmation ==
  [][/\ (/\ dragState'.dropPosition \in Edges
         /\ \/ dragState'.dropPosition # dragState.dropPosition
            \/ dragState'.targetPaneId # dragState.targetPaneId)
        => /\ dragState'.targetPaneId \in AllPaneIds
           /\ \E i \in 1..Len(timers) :
                timers[i] = [pane |-> dragState'.targetPaneId,
                             position |-> dragState'.dropPosition]
           /\ surface[dragState'.targetPaneId].pendingPosition = dragState'.dropPosition
     /\ \A i \in 1..Len(timers') :
          surface'[timers'[i].pane].pendingPosition = timers'[i].position]_vars

\* C26: at most one hover timer is pending, all pane surfaces counted.
C26_OneHoverTimer == Len(timers) <= 1

\* C27: during a drag the drag state never holds the position center for the
\* pane the drag started in.
C27_NoCenterOnSource ==
  dragState.isDragging =>
    ~(dragState.dropPosition = "center" /\ dragState.targetPaneId = dragState.sourcePaneId)

\* C28: a drop on the pane the drag started in, with the position center, leaves
\* the workspace as it was: panes, tabs and their order, activePaneId and
\* splitDirection.
C28_CenterDropOnSourceIsNoOp ==
  \A p \in LivePaneIds(WS) :
    (/\ dragState.isDragging
     /\ dragState.dropPosition = "center"
     /\ dragState.sourcePaneId = p)
      => handleDrop(WS, DK, p, generatePaneId(WS, MaxPanes - 1)).ws = WS

\* C28's case: the dragged tab was closed while the drag went on, the pointer is
\* over the center of the pane the drag started in, and the drop does not bring
\* the tab back.
C28_Witness ==
  /\ dragState.isDragging
  /\ dragState.dropPosition = "center"
  /\ dragState.sourcePaneId \in LivePaneIds(WS)
  /\ dragState.targetPaneId = dragState.sourcePaneId
  /\ dragState.draggedTab # <<>>
  /\ dragState.draggedTab[1].id \notin LiveTabIds(WS)
  /\ handleDrop(WS, DK, dragState.sourcePaneId, generatePaneId(WS, MaxPanes - 1)).ws = WS

\* C29: a drop with the position center on a target pane other than the source
\* pane leaves the dragged tab in the target pane and not in the source pane; a
\* drop with an edge position does what splitPane(targetPaneId, dropPosition,
\* tab) does.
C29_DropRelocates ==
  \A p \in LivePaneIds(WS) :
    (/\ dragState.isDragging
     /\ dragState.draggedTab # <<>>
     /\ dragState.targetPaneId = p)
      => LET newId == generatePaneId(WS, MaxPanes - 1)
             tab == dragState.draggedTab[1]
             w2 == handleDrop(WS, DK, p, newId).ws
         IN /\ (dragState.dropPosition = "center" /\ dragState.sourcePaneId # p)
                 => /\ HasId(w2.panes[PaneIndex(w2.panes, p)].tabs, tab.id)
                    /\ \A q \in 1..Len(w2.panes) :
                         w2.panes[q].id = dragState.sourcePaneId
                           => ~HasId(w2.panes[q].tabs, tab.id)
            /\ dragState.dropPosition \in Edges
                 => w2 = splitPane(WS, dragState.targetPaneId, dragState.dropPosition,
                                   <<tab>>, newId)

\* C30: a tab dragged from a pane A, the pointer resting in the top band of
\* another pane B for the hover delay: endDrag returns dropPosition "top" and
\* targetPaneId B, and splitPane(B, "top", tab) then puts a new pane holding only
\* the tab right before B, the tab gone from the pane it came from.
C30_TopEdgeScenario ==
  (/\ dragState.isDragging
   /\ dragState.draggedTab # <<>>
   /\ rested
   /\ dragState.sourcePaneId \in LivePaneIds(WS)
   /\ pointer.pane \in LivePaneIds(WS)
   /\ pointer.pane # dragState.sourcePaneId
   /\ pointer.relY < Edge
   /\ pointer.relX >= Edge
   /\ pointer.relX <= 100 - Edge)
    => LET r == endDrag(dragState).result
           newId == generatePaneId(WS, MaxPanes - 1)
           w2 == splitPane(WS, pointer.pane, "top", r.tab, newId)
           k == PaneIndex(w2.panes, newId)
       IN /\ r.dropPosition = "top"
          /\ r.targetPaneId = pointer.pane
          /\ k # 0
          /\ k < Len(w2.panes)
          /\ w2.panes[k + 1].id = pointer.pane
          /\ w2.panes[k].tabs = r.tab
          /\ \A q \in 1..Len(w2.panes) :
               w2.panes[q].id = r.sourcePaneId => ~HasId(w2.panes[q].tabs, r.tab[1].id)

\* The five positions as the bands of threshold t give them, on relative
\* coordinates in hundredths: the horizontal bands first.
Bands(relX, relY, t) ==
  IF relX < t THEN "left"
  ELSE IF relX > 100 - t THEN "right"
  ELSE IF relY < t THEN "top"
  ELSE IF relY > 100 - t THEN "bottom"
  ELSE "center"

\* calculateDropPosition gives the bands of EDGE_THRESHOLD for every registered
\* rectangle and every pointer of the grid.
CalculateDropPositionBands ==
  \A p \in AllPaneIds : paneRects[p] # <<>> =>
    \A mouseX \in MouseGrid, mouseY \in MouseGrid :
      LET rect == paneRects[p][1] IN
      calculateDropPosition(paneRects, mouseX, mouseY, p)
        = Bands(Relative(mouseX, rect.x, rect.width),
                Relative(mouseY, rect.y, rect.height), EdgeThreshold)

\* C31: for a registered pane's rectangle and a pointer, the classification of
\* the service and that of the pane surface both give the bands of their
\* threshold: left, right, else top, bottom, else center.
C31_EdgeBandClassification ==
  \A p \in AllPaneIds : paneRects[p] # <<>> =>
    \A mouseX \in MouseGrid, mouseY \in MouseGrid :
      LET rect == paneRects[p][1]
          relX == Relative(mouseX, rect.x, rect.width)
          relY == Relative(mouseY, rect.y, rect.height) IN
      /\ calculateDropPosition(paneRects, mouseX, mouseY, p)
           = Bands(relX, relY, EdgeThreshold)
      /\ paneClassify(relX, relY) = Bands(relX, relY, Edge)

\* Whatever rectangle was stored for a pane before unregisterPane, the service
\* classifies every pointer as center for it and handleDragOver does what it
\* does for a pane that was never registered.
UnregisteredRectIgnored ==
  \A p \in AllPaneIds, rect \in RectGrid, mouseX \in MouseSample, mouseY \in MouseSample :
    LET rects1 == unregisterPane(registerPane(paneRects, p, rect), p) IN
    /\ calculateDropPosition(rects1, mouseX, mouseY, p) = "center"
    /\ handleDragOver(rects1, dragState, mouseX, mouseY, p)
         = handleDragOver([q \in AllPaneIds |-> <<>>], dragState, mouseX, mouseY, p)

\* C32: a rectangle stored for a pane before unregisterPane has no effect on
\* calculateDropPosition and handleDragOver for the pane, and a pane that is not
\* registered is not the drag's target with an edge position.
C32_UnregisteredPaneNoDropZone ==
  /\ UnregisteredRectIgnored
  /\ \A p \in AllPaneIds :
       paneRects[p] = <<>> =>
         ~(dragState.targetPaneId = p /\ dragState.dropPosition \in Edges)

\* The step is the pointer leaving a pane for no pane: the one surface that had
\* the drag over it (or the pointer on it) hears the leave and stays mounted.
PointerLeavesAllPanes ==
  \/ /\ \E p \in LivePaneIds(WS) : surface[p].isDragOver /\ PaneIndex(panes', p) # 0
     /\ \A q \in AllPaneIds : ~surface'[q].isDragOver
  \/ /\ pointer.pane # null
     /\ PaneIndex(panes', pointer.pane) # 0
     /\ pointer'.pane = null

\* C33: when the pointer leaves a pane during a drag and is over no pane, no
\* hover timer stays pending and the drag state's targetPaneId and dropPosition
\* are null, so that endDrag reports no target.
C33_LeaveDiscardsDropState ==
  [][(dragState.isDragging /\ dragState'.isDragging /\ PointerLeavesAllPanes)
       => /\ timers' = <<>>
          /\ dragState'.targetPaneId = null
          /\ dragState'.dropPosition = null
          /\ endDrag(dragState').result.targetPaneId = null]_vars

\* C34: while a tab strip is dragging, the Docking Service is in Dragging with
\* the dragged tab and the strip's pane as the source; while none is, it is Idle.
C34_StripDragDrivesDocking ==
  /\ \A p \in AllPaneIds :
       isDragging[p] => /\ dragState.isDragging
                        /\ dragState.draggedTab # <<>>
                        /\ dragState.sourcePaneId = p
  /\ (\A p \in AllPaneIds : ~isDragging[p]) => dragState = NoDrag

IdsOf(s) == {s[i].id : i \in 1..Len(s)}

\* What C35 promises of the workspace w2 that a drop of tab from the strip of A
\* on the strip of B leaves, the workspace having been ws.
StripDropPromise(ws, w2, A, B, tab) ==
  /\ HasId(TabsOf(w2, B), tab.id)
  /\ \A q \in AllPaneIds \ {B} : ~HasId(TabsOf(w2, q), tab.id)
  /\ \A q \in AllPaneIds : IdsOf(TabsOf(w2, q)) \ {tab.id} = IdsOf(TabsOf(ws, q)) \ {tab.id}
  /\ PaneIndex(w2.panes, A) # 0 <=> TabsOf(w2, A) # <<>>

\* The drops of the dragging strip of A on the strip of B all keep the promise.
StripDropsKeepPromise(A, B) ==
  \A k \in 1..Len(localTabs[A]), newIndex \in 0..Len(TabsOf(WS, B)), addedFirst \in BOOLEAN :
    StripDropPromise(WS, dropOnOtherStrip(WS, TB, A, B, k, newIndex, addedFirst).ws,
                     A, B, localTabs[A][k])

\* C35: a tab dragged from the strip of A and dropped on the strip of B is, after
\* "added" on B, "removed" on A (in either order) and the drag-end write-back of
\* A, in B only; every other tab is in the pane it was in, and A is gone exactly
\* if it was left empty.
C35_StripDropMovesTab ==
  \A A \in LivePaneIds(WS), B \in LivePaneIds(WS) :
    (isDragging[A] /\ B # A) => StripDropsKeepPromise(A, B)

\* The same where the store still has for A the list the strip of A holds.
StripDropMovesTabOfCurrentList ==
  \A A \in LivePaneIds(WS), B \in LivePaneIds(WS) :
    (isDragging[A] /\ B # A /\ localTabs[A] = TabsOf(WS, A) /\ C1_TabInExactlyOnePane)
      => StripDropsKeepPromise(A, B)

\* C36: the drag-end write-back of a strip only reorders: the pane has the same
\* set of tab ids after setTabs(paneId, localTabs) as before it, whatever store
\* operations ran during the drag.
C36_WriteBackOnlyReorders ==
  \A p \in LivePaneIds(WS) :
    isDragging[p] =>
      \A k \in 1..Len(localTabs[p]), j \in 1..Len(localTabs[p]) :
        IdsOf(TabsOf(dropOnSameStrip(WS, TB, p, k, j).ws, p)) = IdsOf(TabsOf(WS, p))

\* The same where the store still has for the pane the tabs the strip holds.
WriteBackOfCurrentTabs ==
  \A p \in LivePaneIds(WS) :
    (isDragging[p] /\ IdsOf(localTabs[p]) = IdsOf(TabsOf(WS, p))) =>
      \A k \in 1..Len(localTabs[p]), j \in 1..Len(localTabs[p]) :
        IdsOf(TabsOf(dropOnSameStrip(WS, TB, p, k, j).ws, p)) = IdsOf(TabsOf(WS, p))

\* The step takes a tab with unsaved changes out of the workspace.
DirtyTabCloses ==
  \E t \in LiveTabs(WS) :
    /\ t.isDirty
    /\ t.id \notin {u.id : u \in LiveTabs([panes |-> panes', activePaneId |-> activePaneId',
                                            splitDirection |-> splitDirection'])}

\* The step is the user accepting the confirmation dialog.
ConfirmAccepted == confirmation # <<>> /\ confirmation' = <<>>

\* C37: a tab with unsaved changes is never closed without a confirmation: not
\* by the close button, the middle click, the context menu's Close, Close Others,
\* Close Saved and Close to the Right, nor by the close-active-tab shortcut.
C37_DirtyTabNeedsConfirmation == [][DirtyTabCloses => ConfirmAccepted]_vars

\* The same but for the steps that are the close-active-tab shortcut.
DirtyTabClosedByShortcutOnly ==
  [][DirtyTabCloses => (ConfirmAccepted \/ (panes' = closeActiveTab(WS).panes
                                             /\ confirmation' = confirmation))]_vars

\* C38: ids are unique: the id openTab gives a new tab is the id of no open tab,
\* and the id splitPane gives a new pane is the id of no pane there is, "main"
\* included, whatever generateId returns.
C38_GeneratedIdsUnique ==
  /\ \A key \in KeySet(UIds.keys), forceNew \in UIds.force, newId \in generateId(UIds, "tab") :
       openTabCreates(WS, key, forceNew)
         => openTab(WS, key, forceNew, newId).ret \notin LiveTabIds(WS)
  /\ \A target \in LivePaneIds(WS), position \in Positions, newId \in generateId(UIds, "pane") :
       Len(panes) < MaxPanes
         => LET w2 == splitPane(WS, target, position, <<>>, newId) IN
            \A i, j \in 1..Len(w2.panes) : w2.panes[i].id = w2.panes[j].id => i = j

\* What holds of the store operations that make no id: the tabs they leave have
\* ids that tabs had before, and the panes they leave are panes there were.
OtherOperationsMakeNoId ==
  \A p \in PaneArgs(UIds), t \in TabIdArgs(UIds) :
    \A w2 \in {closeTab(WS, p, t), closePane(WS, p), setActivePane(WS, p),
               setActiveTab(WS, p, t), closeOtherTabs(WS, p, t), closeSavedTabs(WS, p),
               closeTabsToRight(WS, p, t), removeTabFromPane(WS, p, t),
               closeActiveTab(WS), nextTab(WS), previousTab(WS)} :
      /\ LiveTabIds(w2) \subseteq LiveTabIds(WS)
      /\ LivePaneIds(w2) \subseteq LivePaneIds(WS)

\* C39: whenever no transaction request is in flight, the connection of the view
\* is marked in transaction exactly if auto-commit is off.
C39_AutoCommitMatchesTransaction ==
  requests = <<>> => (inTransaction[view] <=> ~autoCommit)
====
